---- MODULE Spec2Model ----
(***************************************************************************)
(* A model of iotfunctions/pipeline.py: the KPI job controller             *)
(* (JobController, JobLog), the auto-merge engine (DataMerge), the         *)
(* aggregation stage (DataAggregator) and the database writer              *)
(* (Db2DataWriter).                                                        *)
(*                                                                         *)
(* A datetime or timedelta is a pair of whole minutes and microseconds,    *)
(* exact at the resolution of the code ('1us').  Optional values (Python   *)
(* None) are sequences of length at most one: None is <<>>, a value v is   *)
(* <<v>>.                                                                  *)
(***************************************************************************)
EXTENDS Integers, Sequences, FiniteSets, Bags, TLC

VARIABLES
    \* ---- schedule evaluation and job log (JobController / JobLog)
    schedules,              \* JobController._schedules
    is_schedule_progressive,\* payload.is_schedule_progressive
    job_log,                \* rows of the job_log table
    execute_date,           \* execute_date of the current tick
    schedule_metadata,      \* result of evaluate_schedules for this tick
    sched_pc,               \* "idle" | "evaluated"
    ticks,                  \* number of ticks performed
    \* ---- get_chunks (JobController)
    chunk_in,               \* arguments of get_chunks and payload settings
    chunks,                 \* get_chunks: the list chunks
    chunk_pc,               \* "call" | "loop" | "body" | "done"
    \* ---- build_job_spec (JobController)
    payload_stages,         \* payload._stages, _mandatory_columns, schedules
    stage_state,            \* mutable attributes of the stage objects
    job_spec,               \* the job spec returned by the last build
    build_info,             \* build_metadata of the last build
    builds,                 \* number of build_job_spec calls so far
    \* ---- JobController.execute
    exec_pc,                \* position in execute
    execute_until,          \* execute_until
    sidx,                   \* index of the schedule being processed
    cidx,                   \* index of the chunk being processed
    phase_idx,              \* index of the job spec phase being executed
    stage_idx,              \* index of the stage within the phase
    df_state,               \* merge.df: "empty" or "data"
    is_executed,            \* is_executed
    future_executions,      \* future_executions
    trace,                  \* stages executed for the current chunk
    history,                \* outcome of the chunks processed in this tick
    job_constants,          \* constants of execute and of the DataMerge in use
    false_returned,         \* whether a stage of the chunk returned False
    now,                    \* the wall clock, utcnow()
    \* ---- DataMerge
    merge_df,               \* DataMerge.df
    merge_constants,        \* DataMerge.constants
    merge_pc,               \* "off", "ready", or "raised" after an exception
    merge_call,             \* the last call of execute and what it did
    merges,                 \* number of calls so far
    \* ---- Db2DataWriter
    db_tables,              \* the rows of each output table
    writer_args,            \* the writer and the arguments of execute
    writer_pc,              \* "off" or "ready"
    writer_hist,            \* outcome and tables after each call of execute
    \* ---- adjust_to_schedule
    round_in,               \* the arguments of adjust_to_schedule
    round_out,              \* the results of its successive applications
    \* ---- DataAggregator
    agg_in,                 \* the aggregators registered for a granularity
    agg_out,                \* the auto_aggregate stage and what it returned
    \* ---- Db2DataWriter._persist_dataframe
    row_lists,              \* self.row_lists: the buffered rows of each table
    emitted,                \* the number of rows emitted for each table
    batches,                \* the calls of _persist_tuples, in order
    batch_pc,               \* "off", "loop" or "done"
    \* ---- JobController.execute_stage
    stage_in,               \* the stage handed to execute_stage
    stage_out               \* the calls of stage.execute and how it ended

sched_vars == <<schedules, is_schedule_progressive, job_log, execute_date,
                schedule_metadata, sched_pc, ticks>>

chunk_vars == <<chunk_in, chunks, chunk_pc>>

build_vars == <<payload_stages, stage_state, job_spec, build_info, builds>>

exec_vars == <<exec_pc, execute_until, sidx, cidx, phase_idx, stage_idx,
               df_state, is_executed, future_executions, trace, history, now,
               false_returned, job_constants>>

merge_vars == <<merge_df, merge_constants, merge_pc, merge_call, merges>>

writer_vars == <<db_tables, writer_args, writer_pc, writer_hist>>

round_vars == <<round_in, round_out>>

agg_vars == <<agg_in, agg_out>>

batch_vars == <<row_lists, emitted, batches, batch_pc>>

stage_vars == <<stage_in, stage_out>>

vars == <<sched_vars, chunk_vars, build_vars, exec_vars, merge_vars,
          writer_vars, round_vars, agg_vars, batch_vars, stage_vars>>

-----------------------------------------------------------------------------
(* Optional values *)
None == <<>>
Some(v) == <<v>>
Val(o) == o[1]

Max(S) == CHOOSE x \in S : \A y \in S : y <= x
Min(S) == CHOOSE x \in S : \A y \in S : x <= y

-----------------------------------------------------------------------------
(* Dates and durations.  A datetime is the duration since midnight of day   *)
(* 0; a duration is held as whole minutes and the microseconds of the       *)
(* minute that has begun, which is what datetime and timedelta compute     *)
(* with at microsecond resolution.                                         *)
MicrosPerMin == 60000000
MinPerHour == 60
HoursPerDay == 24

\* a duration of m minutes and u microseconds, normalised as timedelta does
Duration(m, u) == [min |-> m + (u \div MicrosPerMin), us |-> u % MicrosPerMin]

Micros(n) == Duration(0, n)
Minutes(n) == Duration(n, 0)
Hours(n) == Duration(n * MinPerHour, 0)
Days(n) == Duration(n * HoursPerDay * MinPerHour, 0)

\* pd.to_timedelta('1us')
OneUs == Micros(1)

\* a + b, a - b and n * a on datetimes and timedeltas
TAdd(a, b) == Duration(a.min + b.min, a.us + b.us)
TSub(a, b) == Duration(a.min - b.min, a.us - b.us)
TMul(n, a) == Duration(n * a.min, n * a.us)

\* a < b, a <= b
TLt(a, b) == a.min < b.min \/ (a.min = b.min /\ a.us < b.us)
TLe(a, b) == a.min < b.min \/ (a.min = b.min /\ a.us <= b.us)

\* a // b for timedeltas: the floor of the quotient
TFloorDiv(a, b) ==
    IF b.us = 0 THEN a.min \div b.min
    ELSE (a.min * MicrosPerMin + a.us) \div (b.min * MicrosPerMin + b.us)

\* max and min of a set of datetimes
TMax(S) == CHOOSE x \in S : \A y \in S : TLe(y, x)
TMin(S) == CHOOSE x \in S : \A y \in S : TLe(x, y)

\* min(a, b)
MinOf(a, b) == IF TLe(a, b) THEN a ELSE b

\* datetime.combine(utcnow().date(), datetime.min.time()) for a clock reading
DayOf(t) == Days(t.min \div (HoursPerDay * MinPerHour))

\* pd.to_timedelta(f) for a frequency string
to_timedelta(f) ==
    CASE f = "5min" -> Minutes(5)
      [] f = "300s" -> Minutes(5)
      [] f = "10min" -> Minutes(10)
      [] f = "15min" -> Minutes(15)
      [] f = "1h" -> Hours(1)
      [] f = "60min" -> Hours(1)
      [] f = "7h" -> Hours(7)

-----------------------------------------------------------------------------
(* Backtrack settings of a schedule: None, 'checkpoint' or a duration *)
BtNone == [kind |-> "none", val |-> Minutes(0)]
BtCheckpoint == [kind |-> "checkpoint", val |-> Minutes(0)]
BtDuration(d) == [kind |-> "duration", val |-> d]

\* an entry of payload._schedules_dict: freq is the key, a frequency string
Schedule(freq, round_hour, round_min, backtrack) ==
    [freq |-> freq, round_hour |-> round_hour, round_min |-> round_min,
     backtrack |-> backtrack]

\* JobController.default_schedule = ('5min', None, None, None)
default_schedule == Schedule("5min", None, None, BtNone)

\* durations.sort()
RECURSIVE SortDurations(_)
SortDurations(D) ==
    IF D = {} THEN <<>>
    ELSE <<TMin(D)>> \o SortDurations(D \ {TMin(D)})

\* SortByFreq: sort_dict maps the duration of each key to the key, the last
\* key of a duration replacing the ones before; the schedules of the keys
\* that are left, by increasing duration.  S is the dict as the sequence of
\* its items.
SortByFreq(S) ==
    LET sort_dict(d) ==
            S[Max({i \in DOMAIN S : to_timedelta(S[i].freq) = d})]
        durations == SortDurations({to_timedelta(S[i].freq) : i \in DOMAIN S})
    IN [k \in DOMAIN durations |-> sort_dict(durations[k])]

\* JobController.build_schedules_list: the default schedule is added when
\* its key is not a key of the dict
build_schedules_list(schedules_dict) ==
    LET withDefault ==
            IF \E i \in DOMAIN schedules_dict :
                  schedules_dict[i].freq = default_schedule.freq
            THEN schedules_dict
            ELSE Append(schedules_dict, default_schedule)
    IN SortByFreq(withDefault)

-----------------------------------------------------------------------------
(* JobController.adjust_to_schedule.  today is the midnight of the current  *)
(* UTC day (the code reads it from utcnow(), not from execute_date).       *)
\* the anchor of the schedule: today at start_hours:start_min, a day
\* earlier when that is later than the date
scheduled_anchor(date, start_hours, start_min, today) ==
    LET h == IF start_hours = None THEN 0 ELSE Val(start_hours)
        m == IF start_min = None THEN 0 ELSE Val(start_min)
        scheduled0 == TAdd(today, TAdd(Hours(h), Minutes(m)))
    IN IF TLt(date, scheduled0) THEN TSub(scheduled0, Days(1))
       ELSE scheduled0

\* variant that rounds up to the end of the period the date lies in
adjust_to_schedule_next_period(date, start_hours, start_min, interval, today) ==
    IF start_hours = None /\ start_min = None
    THEN date
    ELSE LET scheduled == scheduled_anchor(date, start_hours, start_min, today)
             periods == TFloorDiv(TSub(date, scheduled), to_timedelta(interval))
         IN TAdd(scheduled, TMul(periods + 1, to_timedelta(interval)))

\* variant that counts the periods from midnight instead of from the anchor
adjust_to_schedule_from_midnight(date, start_hours, start_min, interval, today) ==
    IF start_hours = None /\ start_min = None
    THEN date
    ELSE LET scheduled == scheduled_anchor(date, start_hours, start_min, today)
             periods == TFloorDiv(TSub(date, today), to_timedelta(interval))
         IN TAdd(scheduled, TMul(periods, to_timedelta(interval)))

adjust_to_schedule(date, start_hours, start_min, interval, today) ==
    IF start_hours = None /\ start_min = None
    THEN date
    ELSE LET scheduled == scheduled_anchor(date, start_hours, start_min, today)
             periods == TFloorDiv(TSub(date, scheduled), to_timedelta(interval))
         IN TAdd(scheduled, TMul(periods, to_timedelta(interval)))

-----------------------------------------------------------------------------
(* JobLog *)
JobName == "job"

\* self.job.payload.__class__.__name__
PayloadClass == "Payload"

\* a row of the job log table
JobLogRow(object_type, object_name, schedule, last_update) ==
    [object_type |-> object_type, object_name |-> object_name,
     schedule |-> schedule, last_update |-> last_update]

\* JobLog.get_last_execution_date: max(last_update) of the rows of the
\* payload's class, the job's name and the schedule, None when there is none.
get_last_execution_date(log, name, schedule) ==
    LET rows == {r \in log : /\ r.object_type = PayloadClass
                             /\ r.object_name = name
                             /\ r.schedule = schedule}
    IN IF rows = {} THEN None
       ELSE Some(TMax({r.last_update : r \in rows}))

\* JobLog.write
JobLog_write(log, name, schedule, timestamp) ==
    log \cup {JobLogRow(PayloadClass, name, schedule, timestamp)}

\* JobController.get_next_execution_date
get_next_execution_date(log, schedule, current_execution_date) ==
    LET last == get_last_execution_date(log, JobName, schedule)
    IN IF last = None THEN current_execution_date
       ELSE TAdd(Val(last), to_timedelta(schedule))

-----------------------------------------------------------------------------
(* JobController.evaluate_schedules *)

\* start of the data extraction of a checkpoint driven schedule
checkpoint_start_date_no_increment(prev_checkpoint) == prev_checkpoint

checkpoint_start_date(prev_checkpoint) ==
    IF prev_checkpoint # None
    THEN Some(TAdd(Val(prev_checkpoint), OneUs))
    ELSE None

\* first loop: the status of one schedule
schedule_status(s, T, log, today) ==
    LET next0 == get_next_execution_date(log, s.freq, T)
        rounded == adjust_to_schedule(next0, s.round_hour, s.round_min,
                                      s.freq, today)
        next_date == rounded
        base == [next_date |-> next_date,
                 is_subsumed |-> FALSE,
                 prev_checkpoint |-> None,
                 is_checkpoint_driven |-> FALSE,
                 round_hour |-> s.round_hour,
                 round_min |-> s.round_min,
                 is_due |-> FALSE,
                 start_date |-> None,
                 backtrack |-> BtNone,
                 mark_complete |-> <<>>]
        last == get_last_execution_date(log, JobName, s.freq)
    IN IF TLe(next_date, T)
       THEN IF s.backtrack.kind = "checkpoint"
            THEN [base EXCEPT !.is_due = TRUE,
                              !.is_checkpoint_driven = TRUE,
                              !.prev_checkpoint = last,
                              !.start_date = checkpoint_start_date(last),
                              !.backtrack = BtNone,
                              !.mark_complete = <<s.freq>>]
            ELSE IF s.backtrack.kind = "duration"
            THEN [base EXCEPT !.is_due = TRUE,
                              !.start_date = Some(TSub(T, s.backtrack.val)),
                              !.backtrack = s.backtrack,
                              !.mark_complete = <<s.freq>>]
            ELSE [base EXCEPT !.is_due = TRUE,
                              !.mark_complete = <<s.freq>>]
       ELSE base

\* the frequencies of the schedules of sts[1..n] that are due, in order
RECURSIVE DueFreqs(_, _, _)
DueFreqs(scheds, sts, n) ==
    IF n = 0 THEN <<>>
    ELSE DueFreqs(scheds, sts, n - 1) \o
         (IF sts[n].is_due THEN <<scheds[n].freq>> ELSE <<>>)

\* a due schedule that is not the last due one is subsumed (progressive)
subsumed_status_keeps_due(meta) == [meta EXCEPT !.is_subsumed = TRUE]

subsumed_status(meta) ==
    [meta EXCEPT !.is_due = FALSE, !.is_subsumed = TRUE]

\* second loop: progressive schedules, the last due schedule does the work
\* of the others
evaluate_schedules(scheds, T, log, today, progressive) ==
    LET first == [i \in 1..Len(scheds) |->
                     schedule_status(scheds[i], T, log, today)]
        dueIdx == {i \in 1..Len(scheds) : first[i].is_due}
        all_due == DueFreqs(scheds, first, Len(scheds))
    IN IF dueIdx # {} /\ progressive
       THEN LET last_schedule_due == Max(dueIdx)
            IN [i \in 1..Len(scheds) |->
                  IF i = last_schedule_due
                  THEN [first[i] EXCEPT !.mark_complete = all_due]
                  ELSE IF first[i].is_due
                  THEN subsumed_status(first[i])
                  ELSE first[i]]
       ELSE first

-----------------------------------------------------------------------------
(* Each specification below exercises one part of the program; the state of *)
(* the other parts stays at these values.                                  *)
SchedIdle ==
    /\ schedules = <<>>
    /\ is_schedule_progressive = TRUE
    /\ job_log = {}
    /\ execute_date = Minutes(0)
    /\ schedule_metadata = <<>>
    /\ sched_pc = "off"
    /\ ticks = 0

ChunkIdle ==
    /\ chunk_in = <<>>
    /\ chunks = <<>>
    /\ chunk_pc = "off"

BuildIdle ==
    /\ payload_stages = <<>>
    /\ stage_state = <<>>
    /\ job_spec = <<>>
    /\ build_info = <<>>
    /\ builds = 0

ExecIdle ==
    /\ job_constants = [job |-> {}, shared |-> FALSE, own |-> {}, at_start |-> {}]
    /\ false_returned = "no"
    /\ now = Minutes(0)
    /\ exec_pc = "off"
    /\ execute_until = Minutes(0)
    /\ sidx = 0
    /\ cidx = 0
    /\ phase_idx = 0
    /\ stage_idx = 0
    /\ df_state = [df |-> "empty", merge_df |-> "empty"]
    /\ is_executed = FALSE
    /\ future_executions = {}
    /\ trace = <<>>
    /\ history = {}

MergeIdle ==
    /\ merge_df = <<>>
    /\ merge_constants = <<>>
    /\ merge_pc = "off"
    /\ merge_call = <<>>
    /\ merges = 0

WriterIdle ==
    /\ db_tables = <<>>
    /\ writer_args = <<>>
    /\ writer_pc = "off"
    /\ writer_hist = <<>>

RoundIdle ==
    /\ round_in = <<>>
    /\ round_out = <<>>

AggIdle ==
    /\ agg_in = <<>>
    /\ agg_out = <<>>

BatchIdle ==
    /\ row_lists = <<>>
    /\ emitted = <<>>
    /\ batches = <<>>
    /\ batch_pc = "off"

StageIdle ==
    /\ stage_in = <<>>
    /\ stage_out = <<>>

-----------------------------------------------------------------------------
(* Schedule evaluation over a sequence of ticks (JobController.execute, seen *)
(* from the job log): each tick evaluates the schedules at execute_date and *)
(* then logs the completion of the schedules that were executed.           *)

MaxTicks == 3

\* payload._schedules_dict: the schedules a payload may configure
\* (a dict is the sequence of its items, in the order of insertion)
ScheduleDicts ==
    { <<>>,
      << Schedule("5min", None, None, BtNone),
         Schedule("1h", None, None, BtDuration(Days(1))) >>,
      << Schedule("15min", None, None, BtCheckpoint) >>,
      << Schedule("1h", Some(9), None, BtCheckpoint),
         Schedule("5min", None, None, BtCheckpoint),
         Schedule("10min", None, Some(5), BtDuration(Minutes(5))) >>,
      << Schedule("300s", None, Some(5), BtCheckpoint) >>,
      << Schedule("60min", None, None, BtNone),
         Schedule("1h", Some(9), None, BtCheckpoint) >> }

\* 09:00 of the second day
StartTime == TAdd(Days(1), Hours(9))

\* how far the clock moves between two ticks
TickDeltas ==
    {Minutes(0), OneUs, Minutes(5), Minutes(10), Minutes(55), Hours(1)}

\* rows of the job log that exist before the job's first tick
InitialJobLogs ==
    { {},
      { JobLogRow(PayloadClass, "other", "5min", TAdd(StartTime, Hours(1))),
        JobLogRow("OtherPayloadClass", JobName, "5min",
                  TAdd(StartTime, Hours(1))) },
      { JobLogRow(PayloadClass, JobName, "1h", TSub(StartTime, Minutes(20))),
        JobLogRow(PayloadClass, JobName, "1h", TSub(StartTime, Hours(2))) } }

SchedInit ==
    /\ StageIdle
    /\ BatchIdle
    /\ AggIdle
    /\ RoundIdle
    /\ WriterIdle
    /\ \E d \in ScheduleDicts : schedules = build_schedules_list(d)
    /\ is_schedule_progressive \in BOOLEAN
    /\ job_log \in InitialJobLogs
    /\ execute_date = StartTime
    /\ schedule_metadata = <<>>
    /\ sched_pc = "idle"
    /\ ticks = 0
    /\ ChunkIdle
    /\ BuildIdle
    /\ ExecIdle
    /\ MergeIdle

\* execute: execute_date = utcnow(); schedule_metadata = evaluate_schedules
EvaluateTick ==
    /\ UNCHANGED stage_vars
    /\ UNCHANGED batch_vars
    /\ UNCHANGED agg_vars
    /\ UNCHANGED round_vars
    /\ UNCHANGED writer_vars
    /\ sched_pc = "idle"
    /\ ticks < MaxTicks
    /\ \E d \in TickDeltas :
         /\ execute_date' = TAdd(execute_date, d)
         /\ schedule_metadata' =
               evaluate_schedules(schedules, TAdd(execute_date, d), job_log,
                                  DayOf(TAdd(execute_date, d)),
                                  is_schedule_progressive)
    /\ sched_pc' = "evaluated"
    /\ ticks' = ticks + 1
    /\ UNCHANGED <<schedules, is_schedule_progressive, job_log>>
    /\ UNCHANGED <<chunk_vars, build_vars, exec_vars, merge_vars>>

\* the rows log_completion writes for the schedules of mark_complete
RECURSIVE log_completion(_, _, _)
log_completion(log, mark_complete, timestamp) ==
    IF mark_complete = <<>> THEN log
    ELSE log_completion(
            JobLog_write(log, JobName, Head(mark_complete), timestamp),
            Tail(mark_complete), timestamp)

RECURSIVE log_all(_, _, _, _)
log_all(log, meta, done, timestamp) ==
    IF done = {} THEN log
    ELSE LET i == Min(done)
         IN log_all(log_completion(log, meta[i].mark_complete, timestamp),
                    meta, done \ {i}, timestamp)

\* execute: the due schedules are processed; those that complete are logged
\* (a schedule whose preload stage halts, or whose processing raises, is not)
CompleteTick ==
    /\ UNCHANGED stage_vars
    /\ UNCHANGED batch_vars
    /\ UNCHANGED agg_vars
    /\ UNCHANGED round_vars
    /\ UNCHANGED writer_vars
    /\ sched_pc = "evaluated"
    /\ \E done \in SUBSET {i \in 1..Len(schedules) : schedule_metadata[i].is_due} :
         job_log' = log_all(job_log, schedule_metadata, done, execute_date)
    /\ sched_pc' = "idle"
    /\ UNCHANGED <<schedules, is_schedule_progressive, execute_date,
                   schedule_metadata, ticks>>
    /\ UNCHANGED <<chunk_vars, build_vars, exec_vars, merge_vars>>

SchedNext == EvaluateTick \/ CompleteTick

SpecSched == SchedInit /\ [][SchedNext]_vars

-----------------------------------------------------------------------------
(* Claims about schedule evaluation *)

\* the schedules whose next_date has come at this tick ("originally due")
OriginallyDue ==
    {i \in 1..Len(schedules) :
        TLe(schedule_metadata[i].next_date, execute_date)}

FreqsOfSchedules == [i \in 1..Len(schedules) |-> schedules[i].freq]

IsOrigDueFreq(f) == \E i \in OriginallyDue : schedules[i].freq = f

\* C1: with progressive schedules, after evaluate_schedules at most one
\* schedule is due; it is the longest-period schedule among those whose
\* next_date has come, its mark_complete lists all of them, and each of the
\* others is not due and is subsumed.
C1_ProgressiveSubsumption ==
    (sched_pc = "evaluated" /\ is_schedule_progressive) =>
        LET due == {i \in 1..Len(schedules) : schedule_metadata[i].is_due}
        IN /\ Cardinality(due) <= 1
           /\ (OriginallyDue = {}) => (due = {})
           /\ \A L \in due :
                /\ L \in OriginallyDue
                /\ \A j \in OriginallyDue :
                      TLe(to_timedelta(schedules[j].freq),
                          to_timedelta(schedules[L].freq))
                /\ schedule_metadata[L].mark_complete =
                      SelectSeq(FreqsOfSchedules, IsOrigDueFreq)
           /\ (OriginallyDue # {}) => (due # {})
           /\ \A j \in OriginallyDue \ due :
                /\ ~schedule_metadata[j].is_due
                /\ schedule_metadata[j].is_subsumed

C1_Witness ==
    /\ sched_pc = "evaluated"
    /\ is_schedule_progressive
    /\ Cardinality(OriginallyDue) >= 2
    /\ \E i \in OriginallyDue : schedule_metadata[i].is_subsumed

\* the job's completions of schedule i in the job log
CompletionsOf(i) ==
    {r \in job_log : /\ r.object_type = PayloadClass
                     /\ r.object_name = JobName
                     /\ r.schedule = schedules[i].freq}

\* C5 (as stated): for every schedule that is due and has a completion in
\* the job log, the computed start_date is later than every completion.
C5_StartAfterCompletion ==
    (sched_pc = "evaluated") =>
        \A i \in OriginallyDue : \A r \in CompletionsOf(i) :
            /\ schedule_metadata[i].start_date # None
            /\ TLt(r.last_update, Val(schedule_metadata[i].start_date))

\* C5 (amended): for a due schedule with backtrack 'checkpoint' the
\* start_date is the latest completion plus one microsecond, hence later
\* than every completion, with backtrack reported as None, and it is None
\* when the job log has no completion; for a due schedule with a duration
\* backtrack it is execute_date minus the backtrack, and without backtrack
\* it is None.
C5_CheckpointMonotonicity ==
    (sched_pc = "evaluated") =>
        \A i \in OriginallyDue :
            LET m == schedule_metadata[i]
                bt == schedules[i].backtrack
            IN /\ (bt.kind = "checkpoint") =>
                    /\ m.backtrack = BtNone
                    /\ (CompletionsOf(i) = {}) => (m.start_date = None)
                    /\ (CompletionsOf(i) # {}) =>
                          /\ m.start_date # None
                          /\ \A r \in CompletionsOf(i) :
                                TLt(r.last_update, Val(m.start_date))
                          /\ \E r \in CompletionsOf(i) :
                                Val(m.start_date) = TAdd(r.last_update, OneUs)
               /\ (bt.kind = "duration") =>
                    m.start_date = Some(TSub(execute_date, bt.val))
               /\ (bt.kind = "none") => (m.start_date = None)

C5_Witness ==
    /\ sched_pc = "evaluated"
    /\ \E i \in OriginallyDue :
         /\ schedules[i].backtrack.kind = "checkpoint"
         /\ Cardinality(CompletionsOf(i)) >= 2
         /\ schedule_metadata[i].start_date # None

-----------------------------------------------------------------------------
(* JobController.get_chunks *)

\* JobController.default_chunk_size = '7d'
default_chunk_size == Days(7)

\* payload.get_adjusted_start_date through exec_payload_method: a payload
\* without the method leaves the date unchanged; a payload with a calendar
\* moves it back to the start of its period.
get_adjusted_start_date(adjust, start_date) ==
    IF adjust.kind = "none" THEN start_date
    ELSE TMul(TFloorDiv(start_date, adjust.period), adjust.period)

\* start of the chunk that follows a chunk ending at chunk_end
next_chunk_start_no_increment(chunk_end) == chunk_end

next_chunk_start(chunk_end) == TAdd(chunk_end, OneUs)

\* the start date get_chunks works with: the argument, or the payload's
\* early timestamp when the argument is None
effective_start_date(in) ==
    IF in.start_date # None THEN in.start_date ELSE in.early_timestamp

MaxChunks == 22

\* the first chunk
first_chunk(in) ==
    LET start_date == effective_start_date(in)
    IN IF start_date = None
       THEN [start |-> None, end |-> in.end_date]
       ELSE LET cs0 == adjust_to_schedule(Val(start_date), in.round_hour,
                                          in.round_min, in.schedule, in.today)
                cs == get_adjusted_start_date(in.adjust, cs0)
            IN [start |-> Some(cs),
                end |-> MinOf(TAdd(cs, in.chunk_size), in.end_date)]

\* one pass of the while loop
following_chunk(in, chunk_end) ==
    LET cs == get_adjusted_start_date(in.adjust, next_chunk_start(chunk_end))
    IN [start |-> Some(cs),
        end |-> MinOf(TAdd(cs, in.chunk_size), in.end_date)]


ChunkEndDate == Days(20)

ChunkInputs ==
    [start_date : {None, Some(Days(0)),
                   Some(TAdd(Days(10), Hours(3))),
                   Some(TSub(ChunkEndDate, Minutes(5))), Some(ChunkEndDate),
                   Some(TSub(ChunkEndDate, TAdd(Days(4), Minutes(1))))},
     early_timestamp : {None, Some(Days(1))},
     end_date : {ChunkEndDate},
     round_hour : {None, Some(9)},
     round_min : {None, Some(30)},
     schedule : {"5min", "1h"},
     chunk_size : {default_chunk_size, Days(4), Days(1)},
     adjust : {[kind |-> "none", period |-> Minutes(0)],
               [kind |-> "period", period |-> Days(1)],
               [kind |-> "period", period |-> Days(30)]},
     today : {DayOf(ChunkEndDate)}]

ChunkInit ==
    /\ StageIdle
    /\ BatchIdle
    /\ AggIdle
    /\ RoundIdle
    /\ WriterIdle
    /\ SchedIdle
    /\ BuildIdle
    /\ ExecIdle
    /\ MergeIdle
    /\ chunk_in \in ChunkInputs
    /\ chunks = <<>>
    /\ chunk_pc = "call"

\* get_chunks up to the while loop
GetChunksFirst ==
    /\ UNCHANGED stage_vars
    /\ UNCHANGED batch_vars
    /\ UNCHANGED agg_vars
    /\ UNCHANGED round_vars
    /\ UNCHANGED writer_vars
    /\ chunk_pc = "call"
    /\ chunks' = <<first_chunk(chunk_in)>>
    /\ chunk_pc' = IF effective_start_date(chunk_in) = None THEN "done"
                   ELSE "loop"
    /\ UNCHANGED chunk_in
    /\ UNCHANGED <<sched_vars, build_vars, exec_vars, merge_vars>>

\* while chunk_end < end_date: the condition holds, the body is entered.
\* The list is followed up to MaxChunks entries: every list that
\* get_chunks returns is shorter (ReturnedListWhole), and a loop that is
\* left at MaxChunks entries has tested the same chunk_end before
\* (CapOnlyCutsRepeatingLoops).
GetChunksTest ==
    /\ UNCHANGED stage_vars
    /\ UNCHANGED batch_vars
    /\ UNCHANGED agg_vars
    /\ UNCHANGED round_vars
    /\ UNCHANGED writer_vars
    /\ chunk_pc = "loop"
    /\ TLt(chunks[Len(chunks)].end, chunk_in.end_date)
    /\ Len(chunks) < MaxChunks
    /\ chunk_pc' = "body"
    /\ UNCHANGED <<chunk_in, chunks>>
    /\ UNCHANGED <<sched_vars, build_vars, exec_vars, merge_vars>>

\* the body of the while loop: the next chunk is appended and the
\* condition is tested again
GetChunksNext ==
    /\ UNCHANGED stage_vars
    /\ UNCHANGED batch_vars
    /\ UNCHANGED agg_vars
    /\ UNCHANGED round_vars
    /\ UNCHANGED writer_vars
    /\ chunk_pc = "body"
    /\ chunks' = Append(chunks,
                        following_chunk(chunk_in, chunks[Len(chunks)].end))
    /\ chunk_pc' = "loop"
    /\ UNCHANGED chunk_in
    /\ UNCHANGED <<sched_vars, build_vars, exec_vars, merge_vars>>

\* the loop ends and get_chunks returns chunks
GetChunksReturn ==
    /\ UNCHANGED stage_vars
    /\ UNCHANGED batch_vars
    /\ UNCHANGED agg_vars
    /\ UNCHANGED round_vars
    /\ UNCHANGED writer_vars
    /\ chunk_pc = "loop"
    /\ ~TLt(chunks[Len(chunks)].end, chunk_in.end_date)
    /\ chunk_pc' = "done"
    /\ UNCHANGED <<chunk_in, chunks>>
    /\ UNCHANGED <<sched_vars, build_vars, exec_vars, merge_vars>>

ChunkNext ==
    \/ GetChunksFirst
    \/ GetChunksTest
    \/ GetChunksNext
    \/ GetChunksReturn

SpecChunks == ChunkInit /\ [][ChunkNext]_vars

-----------------------------------------------------------------------------
(* Claims about get_chunks *)

\* C6 (as stated): the chunks are in increasing order, every chunk after the
\* first starts exactly one microsecond after the end of the chunk before
\* it, the first starts at or before the start date and the last ends at
\* end_date.
C6_ChunksContiguous ==
    (chunk_pc = "done") =>
        /\ \A k \in 2..Len(chunks) :
              /\ chunks[k].start = Some(TAdd(chunks[k - 1].end, OneUs))
              /\ TLt(chunks[k - 1].end, chunks[k].end)
        /\ chunks[Len(chunks)].end = chunk_in.end_date
        /\ (effective_start_date(chunk_in) # None) =>
              /\ chunks[1].start # None
              /\ TLe(Val(chunks[1].start), Val(effective_start_date(chunk_in)))

\* C6 (amended): the last chunk ends at end_date, the first chunk starts at
\* or before the start date (it has no start when there is no start date),
\* chunk ends increase, and every chunk after the first starts at
\* get_adjusted_start_date(previous end + 1 microsecond): exactly one
\* microsecond after the previous end when the payload does not adjust
\* start dates, never later than that when it moves dates back to a period
\* boundary; so the chunks cover the range from the start date to end_date.
C6_ChunkCoverage ==
    (chunk_pc = "done") =>
        /\ Len(chunks) >= 1
        /\ chunks[Len(chunks)].end = chunk_in.end_date
        /\ (effective_start_date(chunk_in) = None) =>
              chunks = <<[start |-> None, end |-> chunk_in.end_date]>>
        /\ (effective_start_date(chunk_in) # None) =>
              /\ chunks[1].start # None
              /\ TLe(Val(chunks[1].start), Val(effective_start_date(chunk_in)))
        /\ \A k \in 2..Len(chunks) :
              /\ chunks[k].start # None
              /\ TLt(chunks[k - 1].end, chunks[k].end)
              /\ TLe(Val(chunks[k].start), TAdd(chunks[k - 1].end, OneUs))
              /\ (chunk_in.adjust.kind = "none") =>
                    Val(chunks[k].start) = TAdd(chunks[k - 1].end, OneUs)
              /\ (chunk_in.adjust.kind = "period") =>
                    /\ Val(chunks[k].start) =
                          TMul(TFloorDiv(Val(chunks[k].start),
                                         chunk_in.adjust.period),
                               chunk_in.adjust.period)
                    /\ TLt(TSub(TAdd(chunks[k - 1].end, OneUs),
                                Val(chunks[k].start)),
                           chunk_in.adjust.period)

C6_Witness ==
    /\ chunk_pc = "done"
    /\ Len(chunks) >= 3
    /\ chunk_in.adjust.kind = "none"
    /\ chunk_in.round_hour # None

-----------------------------------------------------------------------------
(* JobController.build_job_spec and its helpers.                            *)
(*                                                                         *)
(* payload_stages.defs maps a stage name to the attributes the controller  *)
(* never changes (_input_set, is_data_source); stage_state maps it to the   *)
(* attributes it sets (schedule, _output_list, _projection_list).          *)
(* payload_stages.metadata is payload._stages: (stage_type, granularity)   *)
(* -> list of stage names; the granularity of the input level is "None".   *)
(* An entry of a job spec names a stage object (kind "stage": its outputs  *)
(* are those of stage_state), or is the DataAggregator or the data writer  *)
(* that build_job_spec creates.                                            *)

Range(f) == {f[x] : x \in DOMAIN f}

\* list(S) of a set S: the elements in the order in which the set is
\* iterated, iteration_order being that order for a superset of S
list_of_set(S, iteration_order) ==
    LET in_S(c) == c \in S IN SelectSeq(iteration_order, in_S)

\* JobController.recursion_limit
recursion_limit == 99

\* stage_metadata.get((stage_type, granularity), [])
stages_of(p, stage_type, granularity) ==
    IF <<stage_type, granularity>> \in DOMAIN p.metadata
    THEN p.metadata[<<stage_type, granularity>>]
    ELSE <<>>

\* JobController.get_stages: the stages of a type and granularity that are
\* not excluded and whose inputs are all available (available_columns is an
\* optional set: None does not filter).  Only the list of stages is used by
\* the callers modelled here.
get_stages(p, st, stage_type, granularity, available_columns, exclude_stages) ==
    LET ok(n) == /\ n \notin exclude_stages
                 /\ \/ available_columns = None
                    \/ p.defs[n].input_set \ Val(available_columns) = {}
    IN SelectSeq(stages_of(p, stage_type, granularity), ok)

\* JobController.get_granularities: the granularities of the metadata keys
get_granularities(p) ==
    {k[2] : k \in {x \in DOMAIN p.metadata : x[2] # "None"}}

\* JobController.gather_available_stages.  Returns the stages added, the
\* new columns, the inputs they require, the projection lists of the data
\* sources among them, and the stage attributes after the default schedule
\* was set on the candidates that had none.
gather_available_stages(p, st, stage_type, schedule, subsumed, available_columns, prev_stages, granularity, default_freq) ==
    LET candidate_stages ==
            get_stages(p, st, stage_type, granularity,
                       Some(available_columns), Range(prev_stages))
        st1 == [n \in DOMAIN st |->
                  IF n \in Range(candidate_stages) /\ st[n].schedule = None
                  THEN [st[n] EXCEPT !.schedule = Some(default_freq)]
                  ELSE st[n]]
        scheds == {schedule} \cup Range(subsumed)
        on_schedule(n) == Val(st1[n].schedule) \in scheds
        stages == SelectSeq(candidate_stages, on_schedule)
        new_cols == UNION {Range(st1[n].output_list) : n \in Range(stages)}
        required_input_set == UNION {p.defs[n].input_set : n \in Range(stages)}
        sources == {n \in Range(stages) : p.defs[n].is_data_source}
    IN [stages |-> stages,
        new_cols |-> new_cols \ available_columns,
        required_inputs |-> required_input_set,
        data_source_projection_list |->
            [n \in sources |-> Range(st1[n].output_list)],
        st |-> st1]

\* build_stages_of_type: meta['data_source_projection_list'] after a pass
merge_projection_lists(existing, found) ==
    [n \in DOMAIN existing \cup DOMAIN found |->
        IF n \in DOMAIN found
        THEN found[n] \cup (IF n \in DOMAIN existing THEN existing[n] ELSE {})
        ELSE existing[n]]

\* build_stages_of_type: the build metadata after the stages found by one
\* pass (r, the result of gather_available_stages) were added
after_pass(p, meta, r) ==
    [meta EXCEPT
       !.spec = @ \o [k \in 1..Len(r.stages) |->
                        [kind |-> "stage",
                         name |-> r.stages[k],
                         input_items |-> p.defs[r.stages[k]].input_set,
                         output_items |-> <<>>]],
       !.names = @ \o r.stages,
       !.available_columns = @ \cup r.new_cols,
       !.required_inputs = @ \cup r.required_inputs,
       !.passes = @ + 1,
       !.st = r.st]

\* build_stages_of_type returns meta: the record of the call (how many
\* passes of the loop it made, whether it left the loop by break, and the
\* meta it returned) is kept for the properties of the build
returned_meta(meta, stage_type, granularity, n, by_break) ==
    [meta EXCEPT !.calls =
        Append(@, [stage_type |-> stage_type, granularity |-> granularity,
                   passes |-> n, by_break |-> by_break,
                   names |-> meta.names,
                   available_columns |-> meta.available_columns,
                   st |-> meta.st])]

\* a build_stages_of_type that makes one pass only
build_stages_of_type_one_pass(p, stage_type, granularity, meta_in, default_freq, i) ==
    CHOOSE out \in
       { returned_meta(after_pass(p, meta, res), stage_type, granularity,
                       1, TRUE)
         : <<meta, res>> \in
             { <<m, gather_available_stages(
                       p, m.st, stage_type, m.schedule, m.subsumed,
                       m.available_columns, m.names, granularity,
                       default_freq)>> : m \in {meta_in} } }
       : TRUE

\* JobController.build_stages_of_type: pass i of range(recursion_limit).
\* (meta and r are bound to values once per pass.)
RECURSIVE build_stages_of_type(_, _, _, _, _, _)
build_stages_of_type(p, stage_type, granularity, meta_in, default_freq, i) ==
    IF i >= recursion_limit
    THEN returned_meta(meta_in, stage_type, granularity, i, FALSE)
    ELSE CHOOSE out \in
           { IF Len(r.stages) = 0
             THEN returned_meta(m1, stage_type, granularity, i + 1, TRUE)
             ELSE build_stages_of_type(
                     p, stage_type, granularity,
                     [m1 EXCEPT !.data_source_projection_list =
                         merge_projection_lists(@, r.data_source_projection_list)],
                     default_freq, i + 1)
             : <<m1, r>> \in
                 { <<after_pass(p, meta, res), res>>
                   : <<meta, res>> \in
                       { <<m, gather_available_stages(
                                 p, m.st, stage_type, m.schedule, m.subsumed,
                                 m.available_columns, m.names, granularity,
                                 default_freq)>> : m \in {meta_in} } } }
           : TRUE

\* outputs.append / outputs.extend over a list of output lists
RECURSIVE Flatten(_)
Flatten(ss) == IF ss = <<>> THEN <<>> ELSE Head(ss) \o Flatten(Tail(ss))

\* the % operator on a format string with the given number of %s and a
\* right operand that is a tuple of values (a value that is not a tuple
\* counts as one): the texts inserted into the string, or a TypeError
percent_format(placeholders, values) ==
    IF Len(values) # placeholders
    THEN [raised |-> TRUE, type |-> "TypeError",
          message |-> <<"not enough arguments for format string">>]
    ELSE [raised |-> FALSE, type |-> "", message |-> values]

\* raise ValueError(('... %s has items: %s' %s.name, items)): the operand
\* of % is s.name alone, the comma makes items a second element of the
\* tuple handed to ValueError; the format is evaluated before ValueError
\* is called
raise_value_error(name) ==
    LET text == percent_format(2, <<name>>)
    IN IF text.raised THEN [type |-> text.type, message |-> text.message]
       ELSE [type |-> "ValueError", message |-> text.message]

\* collapse_aggregation_stages: the first of the simple aggregators that
\* does not have exactly one input item and one output item (0 if none)
first_bad_aggregator(p, st, simple) ==
    LET bad == {k \in 1..Len(simple) :
                  \/ Cardinality(p.defs[simple[k]].input_set) # 1
                  \/ Len(st[simple[k]].output_list) # 1}
    IN IF bad = {} THEN 0 ELSE CHOOSE k \in bad : \A j \in bad : k <= j

\* JobController.collapse_aggregation_stages (the inputs and outputs of the
\* simple and complex aggregators whose inputs are available, or the error
\* raised for a simple aggregator)
collapse_aggregation_stages(p, st, granularity, available_columns) ==
    LET simple == get_stages(p, st, "simple_aggregate", granularity,
                             Some(available_columns), {})
        complex == get_stages(p, st, "complex_aggregate", granularity,
                              Some(available_columns), {})
        outs(seq) == [k \in 1..Len(seq) |-> st[seq[k]].output_list]
        bad == first_bad_aggregator(p, st, simple)
    IN [error |-> IF bad = 0 THEN None
                  ELSE Some(raise_value_error(simple[bad])),
        simple |-> simple,
        complex_aggregators |-> complex,
        collapsed_stages |-> simple \o complex,
        inputs |-> UNION {p.defs[n].input_set : n \in Range(simple \o complex)},
        outputs |-> Flatten(outs(simple)) \o Flatten(outs(complex))]

\* a data writer of the job spec: a Db2DataWriter (JobController.data_writer)
\* or a DataWriter, which writes a csv file
DataWriterStage(class, name) ==
    [kind |-> "writer", class |-> class, name |-> name, input_items |-> {},
     output_items |-> <<>>]

\* build_job_spec: the phase of one granularity; meta carries the columns
\* available so far (one set object shared by 'available_columns' and
\* 'available_colums')
build_granularity(p, g, meta_in, default_freq) ==
    CHOOSE out \in
      { IF m1.error # None THEN m1
        ELSE [m1 EXCEPT !.spec =
                 @ \o <<DataWriterStage("DataWriter",
                                        "data_writer_ouput_" \o g)>>]
        : m1 \in
            { IF result.error # None
              THEN [meta EXCEPT !.error = result.error]
              ELSE build_stages_of_type(
                 p, "transform", g,
                 [meta EXCEPT
                    !.spec = <<[kind |-> "aggregator",
                                name |-> "auto_aggregate",
                                input_items |-> result.inputs,
                                output_items |-> result.outputs]>>,
                    !.names = <<>>,
                    !.required_inputs = @ \cup result.inputs,
                    !.available_columns = @ \cup Range(result.outputs)],
                 default_freq, 0)
              : <<meta, result>> \in
                  { <<m, collapse_aggregation_stages(
                            p, m.st, g, m.available_columns)>>
                    : m \in {meta_in} } } }
      : TRUE

RECURSIVE build_granularities(_, _, _, _, _)
build_granularities(p, order, meta_in, default_freq, phases_in) ==
    IF order = <<>> \/ meta_in.error # None
    THEN [meta |-> meta_in, phases |-> phases_in]
    ELSE CHOOSE out \in
           { build_granularities(
                p, Tail(order), m, default_freq,
                Append(phases, [phase |-> Head(order), stages |-> m.spec]))
             : <<m, phases>> \in
                 { <<build_granularity(p, Head(order), meta_in, default_freq),
                     ph>> : ph \in {phases_in} } }
           : TRUE

\* the columns a data source must deliver
required_cols_mandatory_only(required_inputs, mandatory_columns, cols) ==
    cols \cap mandatory_columns

required_cols(required_inputs, mandatory_columns, cols) ==
    cols \cap (required_inputs \cup mandatory_columns)

\* JobController.remove_stage
remove_stage(phases, stage) ==
    LET keep(x) == ~(x.kind = "stage" /\ x.name = stage)
    IN [k \in 1..Len(phases) |->
          [phases[k] EXCEPT !.stages = SelectSeq(@, keep)]]

\* build_job_spec: trimming of one data source
\* (required_cols = list(required_cols) takes the order in which the set
\* is iterated, col_order[stage])
trim_data_source(p, stage, meta, t, col_order) ==
    LET cols == meta.data_source_projection_list[stage]
        req == required_cols(meta.required_inputs, p.mandatory_columns, cols)
    IN IF req = {}
       THEN [t EXCEPT !.phases = remove_stage(@, stage)]
       ELSE IF Cardinality(req) # Cardinality(cols)
       THEN [t EXCEPT !.st[stage].projection_list =
                         Some(list_of_set(req, col_order[stage])),
                      !.st[stage].output_list =
                         list_of_set(req, col_order[stage])]
       ELSE t

\* build_job_spec: trimming of the data sources, one source after the other
RECURSIVE trim_data_sources(_, _, _, _, _)
trim_data_sources(p, sources, meta, t_in, col_order) ==
    IF sources = {} THEN t_in
    ELSE CHOOSE out \in
           { trim_data_sources(p, sources \ {stage}, meta, t, col_order)
             : <<stage, t>> \in
                 { <<n, trim_data_source(p, n, meta, t0, col_order)>>
                   : <<n, t0>> \in
                       {CHOOSE x \in sources : TRUE} \X {t_in} } }
           : TRUE

\* build_job_spec: the input level phase, the data writer last
input_level_spec_writer_first(spec) ==
    <<DataWriterStage("Db2DataWriter", "data_writer_input_level_")>> \o spec

input_level_spec(spec) ==
    spec \o <<DataWriterStage("Db2DataWriter", "data_writer_input_level_")>>

\* build_job_spec left by an exception: nothing is returned, the stage
\* objects keep what the build had set on them
build_failed(error, st) ==
    [error |-> error, job_spec |-> <<>>, st |-> st, required_inputs |-> {},
     available_columns |-> {}, calls |-> <<>>,
     data_source_projection_list |-> <<>>]

\* JobController.build_job_spec.  order is the order in which the set
\* get_granularities() is iterated, col_order[d] the order in which a set
\* of columns of the data source d is iterated.
build_job_spec(p, st, schedule, subsumed, order, default_freq, col_order) ==
    CHOOSE out \in
      { IF g.meta.error # None THEN build_failed(g.meta.error, g.meta.st)
        ELSE
        [error |-> None,
         job_spec |-> t.phases,
         st |-> t.st,
         required_inputs |-> g.meta.required_inputs,
         available_columns |-> g.meta.available_columns,
         calls |-> g.meta.calls,
         data_source_projection_list |-> g.meta.data_source_projection_list]
        : <<g, t>> \in
            { <<gr, trim_data_sources(
                       p, DOMAIN gr.meta.data_source_projection_list, gr.meta,
                       [phases |-> gr.phases, st |-> gr.meta.st], col_order)>>
              : gr \in
                  { build_granularities(
                       p, order, m2, default_freq,
                       <<[phase |-> "input_level",
                          stages |-> input_level_spec(m2.spec)]>>)
                    : m2 \in
                        { build_stages_of_type(p, "transform", "None", m1,
                                               default_freq, 0)
                          : m1 \in
                              { build_stages_of_type(
                                   p, "get_data", "None",
                                   [spec |-> <<>>, names |-> <<>>,
                                    schedule |-> schedule,
                                    subsumed |-> subsumed,
                                    available_columns |-> {},
                                    required_inputs |-> {},
                                    data_source_projection_list |-> <<>>,
                                    passes |-> 0, calls |-> <<>>,
                                    error |-> None, st |-> st],
                                   default_freq, 0) } } } } }
      : TRUE

-----------------------------------------------------------------------------
(* Job spec builds of one controller: every call of build_job_spec works on *)
(* the same stage objects, with the attributes earlier calls left on them. *)

MaxBuilds == 3

StageDef(inputs, is_source) ==
    [input_set |-> inputs, is_data_source |-> is_source]

StageAttrs(outputs, sched) ==
    [output_list |-> outputs, schedule |-> sched, projection_list |-> None]

\* a payload with two data sources on different schedules, dependent
\* transforms, two granularities and an unused data source
PayloadDefs ==
    ("DS1" :> StageDef({}, TRUE)) @@ ("DS2" :> StageDef({}, TRUE)) @@
    ("DS3" :> StageDef({}, TRUE)) @@
    ("T1" :> StageDef({"a"}, FALSE)) @@ ("T2" :> StageDef({"x", "d"}, FALSE)) @@
    ("T3" :> StageDef({"zz"}, FALSE)) @@
    ("SA1" :> StageDef({"b"}, FALSE)) @@ ("CA1" :> StageDef({"a", "y"}, FALSE)) @@
    ("GT1" :> StageDef({"b_mean"}, FALSE)) @@
    ("SA2" :> StageDef({"r"}, FALSE)) @@ ("SA3" :> StageDef({"e"}, FALSE)) @@
    ("GT2" :> StageDef({"b_mean"}, FALSE)) @@
    ("SA4" :> StageDef({"a", "b"}, FALSE)) @@
    ("SA5" :> StageDef({"b"}, FALSE)) @@
    ("SA6" :> StageDef({"b", "zz"}, FALSE))

PayloadAttrs ==
    ("DS1" :> StageAttrs(<<"a", "b", "c">>, None)) @@
    ("DS2" :> StageAttrs(<<"d", "e">>, Some("1h"))) @@
    ("DS3" :> StageAttrs(<<"u">>, None)) @@
    ("T1" :> StageAttrs(<<"x">>, None)) @@
    ("T2" :> StageAttrs(<<"y">>, Some("1h"))) @@
    ("T3" :> StageAttrs(<<"w">>, None)) @@
    ("SA1" :> StageAttrs(<<"b_mean">>, None)) @@
    ("CA1" :> StageAttrs(<<"q1", "q2">>, None)) @@
    ("GT1" :> StageAttrs(<<"r">>, None)) @@
    ("SA2" :> StageAttrs(<<"r_sum">>, None)) @@
    ("SA3" :> StageAttrs(<<"e_max">>, None)) @@
    ("GT2" :> StageAttrs(<<"s">>, None)) @@
    ("SA4" :> StageAttrs(<<"ab">>, None)) @@
    ("SA5" :> StageAttrs(<<"b1", "b2">>, None)) @@
    ("SA6" :> StageAttrs(<<"bz">>, None))

\* simple aggregators registered for g1 besides SA1: none, or one with two
\* inputs, with two outputs, or with two inputs of which one is never
\* available
ExtraAggregators == {<<>>, <<"SA4">>, <<"SA5">>, <<"SA6">>}

PayloadMetadata(extra) ==
    (<<"get_data", "None">> :> <<"DS1", "DS2", "DS3">>) @@
    (<<"transform", "None">> :> <<"T2", "T1", "T3">>) @@
    (<<"simple_aggregate", "g1">> :> <<"SA1">> \o extra) @@
    (<<"complex_aggregate", "g1">> :> <<"CA1">>) @@
    (<<"transform", "g1">> :> <<"GT1">>) @@
    (<<"simple_aggregate", "g2">> :> <<"SA2", "SA3">>) @@
    (<<"transform", "g2">> :> <<"GT2">>)

\* payload._mandatory_columns
MandatoryColumnSets == {{}, {"c"}, {"u", "e"}}

\* the (schedule, subsumed) pairs evaluate_schedules can hand to
\* build_job_spec for the schedules 5min and 1h
BuildSchedules ==
    { [schedule |-> "5min", subsumed |-> <<"5min">>],
      [schedule |-> "1h", subsumed |-> <<"1h">>],
      [schedule |-> "1h", subsumed |-> <<"5min", "1h">>] }

Permutations_of(S) ==
    {q \in [1..Cardinality(S) -> S] : \A x \in S : \E k \in DOMAIN q : q[k] = x}

\* the orders in which the sets of columns of the data sources can be
\* iterated: one order of its columns for every data source
ColumnOrders(p, st) ==
    LET sources == {n \in DOMAIN p.defs : p.defs[n].is_data_source}
        orders(n) == Permutations_of(Range(st[n].output_list))
    IN {f \in [sources -> UNION {orders(n) : n \in sources}] :
          \A n \in sources : f[n] \in orders(n)}

BuildInit ==
    /\ StageIdle
    /\ BatchIdle
    /\ AggIdle
    /\ RoundIdle
    /\ WriterIdle
    /\ SchedIdle
    /\ ChunkIdle
    /\ ExecIdle
    /\ MergeIdle
    /\ \E mc \in MandatoryColumnSets : \E extra \in ExtraAggregators :
          payload_stages = [defs |-> PayloadDefs,
                            metadata |-> PayloadMetadata(extra),
                            mandatory_columns |-> mc,
                            default_freq |-> "5min",
                            no_empty_df |-> {}]
    /\ stage_state = PayloadAttrs
    /\ job_spec = <<>>
    /\ build_info = <<>>
    /\ builds = 0

\* execute: job_spec = build_job_spec(schedule, subsumed)
BuildJobSpec ==
    /\ UNCHANGED stage_vars
    /\ UNCHANGED batch_vars
    /\ UNCHANGED agg_vars
    /\ UNCHANGED round_vars
    /\ UNCHANGED writer_vars
    /\ builds < MaxBuilds
    /\ \E b \in BuildSchedules :
       \E order \in Permutations_of(get_granularities(payload_stages)) :
       \E col_order \in ColumnOrders(payload_stages, stage_state) :
       \E r \in {build_job_spec(payload_stages, stage_state, b.schedule,
                                b.subsumed, order,
                                payload_stages.default_freq, col_order)} :
             /\ job_spec' = r.job_spec
             /\ stage_state' = r.st
             /\ build_info' =
                   [schedule |-> b.schedule, subsumed |-> b.subsumed,
                    order |-> order,
                    before |-> stage_state,
                    required_inputs |-> r.required_inputs,
                    available_columns |-> r.available_columns,
                    calls |-> r.calls,
                    error |-> r.error,
                    data_source_projection_list |->
                        r.data_source_projection_list]
    /\ builds' = builds + 1
    /\ UNCHANGED payload_stages
    /\ UNCHANGED <<sched_vars, chunk_vars, exec_vars, merge_vars>>

BuildNext == BuildJobSpec

SpecBuild == BuildInit /\ [][BuildNext]_vars

-----------------------------------------------------------------------------
(* Claims about build_job_spec *)

\* the stages of all phases of the job spec
SpecStages == UNION {Range(job_spec[k].stages) : k \in DOMAIN job_spec}

\* the data sources recorded by the last build
RecordedSources == DOMAIN build_info.data_source_projection_list

\* the columns a data source retrieves: its _projection_list, all of its
\* columns when the list is None
ProjectionOf(d) ==
    IF stage_state[d].projection_list = None
    THEN Range(stage_state[d].output_list)
    ELSE Range(Val(stage_state[d].projection_list))

\* C9: after the trimming, every input column of a stage of the job spec
\* that a recorded data source produces is in the projection list of a data
\* source that is still in the job spec.
C9_ProjectionSoundness ==
    (builds > 0) =>
        \A s \in SpecStages : \A c \in s.input_items :
            (\E d \in RecordedSources :
                 c \in build_info.data_source_projection_list[d])
            => \E d \in RecordedSources :
                 /\ \E x \in SpecStages : x.kind = "stage" /\ x.name = d
                 /\ c \in ProjectionOf(d)

\* a build that trimmed one data source, removed another and placed an
\* aggregator that reads a data source column
C9_Witness ==
    /\ builds > 0
    /\ \E d \in RecordedSources :
         /\ \E x \in SpecStages : x.kind = "stage" /\ x.name = d
         /\ ProjectionOf(d) # build_info.data_source_projection_list[d]
         /\ ProjectionOf(d) # Range(build_info.before[d].output_list)
    /\ \E d \in RecordedSources :
         ~\E x \in SpecStages : x.kind = "stage" /\ x.name = d
    /\ \E s \in SpecStages :
         /\ s.kind = "aggregator"
         /\ \E c \in s.input_items : \E d \in RecordedSources :
               c \in build_info.data_source_projection_list[d]


-----------------------------------------------------------------------------
(* JobController.execute, execute_stages, execute_stage                    *)
(*                                                                         *)
(* execute is followed statement by statement.  exec_pc is the position:   *)
(* "tick" before evaluate_schedules, "schedule" at the head of the loop    *)
(* over the schedules, "get_chunks" inside the call of get_chunks (whose   *)
(* steps are those of get_chunks above, on the arguments execute passes    *)
(* and the settings of the payload), "chunk" at the head of the loop over  *)
(* the chunks,                                                             *)
(* "stages" inside execute_stages, "done" after the while loop, "raised"   *)
(* when an exception left execute (execute has no exception handler).      *)
(* phase_idx 0 is the list of preload stages, phase_idx k the k-th entry   *)
(* of the job spec.  A frame is "empty" or "data"; df_state.df is the      *)
(* frame execute holds, df_state.merge_df the frame of the DataMerge of    *)
(* the running execute_stages call.  trace lists the stages executed for   *)
(* the current chunk with the job spec in force (it is emptied when a job  *)
(* spec is built); history holds the outcome of each chunk of the pass.    *)

\* the preload stages of the payload, as stage entries
preload_stages(p, st) ==
    LET names == get_stages(p, st, "preload", "None", Some({}), {})
    IN [k \in 1..Len(names) |->
          [kind |-> "stage", name |-> names[k],
           input_items |-> p.defs[names[k]].input_set,
           output_items |-> <<>>]]

\* get_stage_param(s, '_allow_empty_df', True)
allow_empty_df(p, s) ==
    IF s.kind = "aggregator" THEN FALSE
    ELSE IF s.kind = "writer" THEN TRUE
    ELSE s.name \notin p.no_empty_df

\* get_stage_param(s, 'produces_output_items', True)
produces_output_items(s) == s.kind # "writer"

\* get_stage_param(s, '_discard_prior_on_merge', False)
discard_prior_on_merge(s) == s.kind = "aggregator"

\* exec_stage_method(s, 'get_output_list', None): what the method of the
\* stage returns, None when the stage has no such method or the method
\* raises a TypeError or an AttributeError.  A data source is a DataReader:
\* its get_output_list returns _projection_list, which is None until
\* build_job_spec trims the source, and len(None) raises a TypeError.  The
\* aggregator and the other stages of the payload return _output_list; a
\* data writer has no get_output_list.
get_output_list(p, st, s) ==
    IF s.kind = "stage"
    THEN IF p.defs[s.name].is_data_source
         THEN st[s.name].projection_list
         ELSE Some(st[s.name].output_list)
    ELSE IF s.kind = "aggregator" THEN Some(s.output_items)
    ELSE None

\* execute_stages: new_cols is None or len(new_cols) == 0 for a stage
\* that produces output items: an AttributeError is raised
no_output_list(p, st, s) ==
    /\ produces_output_items(s)
    /\ \/ get_output_list(p, st, s) = None
       \/ Len(Val(get_output_list(p, st, s))) = 0

\* what a stage can return: a frame with data, an empty frame, True, False
StageResults == {"data", "empty", "true", "false"}

\* execute_stage: True becomes an empty frame, any other result is
\* returned as it is
execute_stage(result) == IF result = "true" THEN "empty" ELSE result

\* merge.execute raises for the result: a scalar for more than one column
\* cannot be converted to a frame
merge_raises(p, st, s, result) ==
    /\ produces_output_items(s)
    /\ result = "false"
    /\ Len(Val(get_output_list(p, st, s))) # 1

\* merge.df after the result of a stage was merged: a frame with data is
\* merged into the frame, an empty frame is skipped, the scalar False
\* becomes a constant of an empty frame or a column of a frame with data
merged_df(s, df, result) ==
    IF ~produces_output_items(s) THEN df
    ELSE IF discard_prior_on_merge(s)
    THEN IF result = "data" THEN "data" ELSE "empty"
    ELSE IF result = "data" THEN "data"
    ELSE df

\* DataMerge.__init__ as execute_stages calls it: the DataMerge keeps the
\* dict it is given, and makes a dict of its own when it is given None
data_merge(jc, given) ==
    [jc EXCEPT !.shared = given, !.own = {}]

\* DataMerge.clear_data: the constants become a new dict
clear_data(jc) == [jc EXCEPT !.shared = FALSE, !.own = {}]

\* DataMerge.add_constant: the name is entered into the dict the DataMerge
\* holds
add_constant(jc, name) ==
    IF jc.shared THEN [jc EXCEPT !.job = @ \cup {name}]
    ELSE [jc EXCEPT !.own = @ \cup {name}]

\* DataMerge.constants of the DataMerge in use
constants_of(jc) == IF jc.shared THEN jc.job ELSE jc.own

\* execute_stages: the constants after the result of a stage was merged;
\* merge_non_dataframe registers a scalar for one column as a constant
\* when the frame is empty
merged_constants(p, st, s, df, result, jc) ==
    IF ~produces_output_items(s) THEN jc
    ELSE LET cleared == IF discard_prior_on_merge(s) THEN clear_data(jc)
                        ELSE jc
             frame == IF discard_prior_on_merge(s) THEN "empty" ELSE df
         IN IF result = "false" /\ frame = "empty"
            THEN add_constant(cleared, Val(get_output_list(p, st, s))[1])
            ELSE cleared

\* execute: the columns of the preload stages, for c in cols: constants[c] = True
preload_cols(p, st) ==
    UNION {Range(st[n].output_list)
           : n \in Range(get_stages(p, st, "preload", "None", Some({}), {}))}

\* the stages execute_stages is running
current_stages ==
    IF phase_idx = 0
    THEN preload_stages(payload_stages, stage_state)
    ELSE job_spec[phase_idx].stages

\* payloads: with and without a preload stage; LOAD halts on an empty frame
ExecDefs ==
    ("PL" :> StageDef({}, FALSE)) @@
    ("DS1" :> StageDef({}, TRUE)) @@
    ("T1" :> StageDef({"a"}, FALSE)) @@
    ("SA1" :> StageDef({"b"}, FALSE)) @@
    ("GT1" :> StageDef({"b_mean"}, FALSE)) @@
    ("SA2" :> StageDef({"x"}, FALSE))

\* the columns of the data source: with "c", which no stage reads, the
\* build trims the source and sets its _projection_list; without it the
\* source is left as it was declared
ExecSourceColumns == {<<"a", "b", "c">>, <<"a", "b">>}

ExecAttrs(source_columns) ==
    ("PL" :> StageAttrs(<<"loaded">>, None)) @@
    ("DS1" :> StageAttrs(source_columns, None)) @@
    ("T1" :> StageAttrs(<<"x">>, None)) @@
    ("SA1" :> StageAttrs(<<"b_mean">>, None)) @@
    ("GT1" :> StageAttrs(<<"r">>, None)) @@
    ("SA2" :> StageAttrs(<<"x_sum">>, None))

ExecMetadata ==
    (<<"get_data", "None">> :> <<"DS1">>) @@
    (<<"transform", "None">> :> <<"T1">>) @@
    (<<"simple_aggregate", "g1">> :> <<"SA1">>) @@
    (<<"transform", "g1">> :> <<"GT1">>) @@
    (<<"simple_aggregate", "g2">> :> <<"SA2">>)

\* a payload without a get_adjusted_start_date method
no_adjust == [kind |-> "none", period |-> Minutes(0)]

\* a payload whose get_adjusted_start_date returns the start of the period
calendar(period) == [kind |-> "period", period |-> period]

\* payload.chunk_size
exec_chunk_size == Hours(12)

\* the payloads: their stages, the stages that do not allow an empty
\* frame, get_adjusted_start_date, get_early_timestamp and chunk_size
ExecPayloads ==
    { [defs |-> ExecDefs, metadata |-> md, mandatory_columns |-> {},
       default_freq |-> "5min", no_empty_df |-> ne, adjust |-> adjust,
       early_timestamp |-> early, chunk_size |-> exec_chunk_size]
      : <<md, ne, adjust, early>> \in
          { <<ExecMetadata, {}, no_adjust, None>>,
            <<ExecMetadata, {"T1"}, no_adjust, None>>,
            <<ExecMetadata @@ (<<"preload", "None">> :> <<"PL">>), {},
              no_adjust, None>>,
            <<ExecMetadata @@ (<<"preload", "None">> :> <<"PL">>), {"PL"},
              no_adjust, None>>,
            <<ExecMetadata, {}, no_adjust,
              Some(TSub(StartTime, Hours(13)))>>,
            <<ExecMetadata, {}, calendar(Hours(1)), None>>,
            <<ExecMetadata, {}, calendar(Days(1)), None>> } }

\* keep_alive_duration
KeepAliveDurations == {None, Some(Minutes(10))}

ExecScheduleDicts ==
    { <<>>,
      << Schedule("5min", None, None, BtNone),
         Schedule("1h", None, None, BtDuration(Days(1))) >> }

ExecJobLogs ==
    { {},
      { JobLogRow(PayloadClass, JobName, "1h",
                  TSub(StartTime, Minutes(55))) } }

\* how far utcnow() moves during one pass of the while loop
ExecDeltas == {OneUs, Minutes(5)}

\* the deltas of the pass after t passes: the shortest one is followed in
\* the first MaxTicks passes only, the others in every pass, so that every
\* pass has an end and the keep-alive period is over after finitely many
PassDeltas(t) == IF t < MaxTicks THEN ExecDeltas ELSE ExecDeltas \ {OneUs}

\* the time the stages of one chunk take
ChunkDurations == {OneUs, Minutes(15)}

ExecInit ==
    /\ StageIdle
    /\ BatchIdle
    /\ AggIdle
    /\ RoundIdle
    /\ WriterIdle
    /\ ChunkIdle
    /\ MergeIdle
    /\ \E d \in ExecScheduleDicts : schedules = build_schedules_list(d)
    /\ is_schedule_progressive \in BOOLEAN
    /\ job_log \in ExecJobLogs
    /\ execute_date = StartTime
    /\ \E k \in KeepAliveDurations :
          execute_until = IF k = None THEN StartTime
                          ELSE TAdd(StartTime, Val(k))
    /\ schedule_metadata = <<>>
    /\ sched_pc = "idle"
    /\ ticks = 0
    /\ payload_stages \in ExecPayloads
    /\ \E source_columns \in ExecSourceColumns :
          stage_state = ExecAttrs(source_columns)
    /\ job_spec = <<>>
    /\ build_info = <<>>
    /\ builds = 0
    /\ now = StartTime
    /\ false_returned = "no"
    /\ job_constants = [job |-> {}, shared |-> FALSE, own |-> {}, at_start |-> {}]
    /\ exec_pc = "tick"
    /\ sidx = 0
    /\ cidx = 0
    /\ phase_idx = 0
    /\ stage_idx = 0
    /\ df_state = [df |-> "empty", merge_df |-> "empty"]
    /\ is_executed = FALSE
    /\ future_executions = {}
    /\ trace = <<>>
    /\ history = {}


\* execute: schedule_metadata = evaluate_schedules(execute_date)
ExecEvaluate ==
    /\ UNCHANGED stage_vars
    /\ UNCHANGED batch_vars
    /\ UNCHANGED agg_vars
    /\ UNCHANGED job_constants
    /\ UNCHANGED false_returned
    /\ UNCHANGED now
    /\ UNCHANGED round_vars
    /\ UNCHANGED writer_vars
    /\ UNCHANGED merge_vars
    /\ exec_pc = "tick"
    /\ schedule_metadata' =
          evaluate_schedules(schedules, execute_date, job_log,
                             DayOf(execute_date), is_schedule_progressive)
    /\ future_executions' = {}
    /\ is_executed' = FALSE
    /\ sidx' = 1
    /\ history' = {}
    /\ exec_pc' = "schedule"
    /\ ticks' = ticks + 1
    /\ UNCHANGED <<schedules, is_schedule_progressive, job_log, execute_date,
                   sched_pc, execute_until, cidx, phase_idx, stage_idx,
                   df_state, trace>>
    /\ UNCHANGED <<chunk_vars, build_vars>>

\* execute: a schedule that is not due
ExecSkipSchedule ==
    /\ UNCHANGED stage_vars
    /\ UNCHANGED batch_vars
    /\ UNCHANGED agg_vars
    /\ UNCHANGED job_constants
    /\ UNCHANGED false_returned
    /\ UNCHANGED now
    /\ UNCHANGED round_vars
    /\ UNCHANGED writer_vars
    /\ UNCHANGED merge_vars
    /\ exec_pc = "schedule"
    /\ sidx <= Len(schedules)
    /\ ~schedule_metadata[sidx].is_due
    /\ future_executions' =
          IF /\ ~schedule_metadata[sidx].is_subsumed
             /\ TLe(schedule_metadata[sidx].next_date, execute_until)
          THEN future_executions \cup {schedule_metadata[sidx].next_date}
          ELSE future_executions
    /\ sidx' = sidx + 1
    /\ UNCHANGED <<sched_vars, chunk_vars, build_vars>>
    /\ UNCHANGED <<exec_pc, execute_until, cidx, phase_idx, stage_idx,
                   df_state, is_executed, trace, history>>

\* execute: job_spec = build_job_spec(...), then the call of get_chunks
build_and_chunk ==
    \E order \in Permutations_of(get_granularities(payload_stages)) :
    \E col_order \in ColumnOrders(payload_stages, stage_state) :
    \E r \in {build_job_spec(payload_stages, stage_state,
                             schedules[sidx].freq,
                             schedule_metadata[sidx].mark_complete, order,
                             payload_stages.default_freq, col_order)} :
       /\ stage_state' = r.st
       /\ IF r.error # None
          THEN \* the exception of the build propagates through execute
               /\ exec_pc' = "raised"
               /\ UNCHANGED <<job_spec, chunk_vars, cidx, trace>>
          ELSE /\ job_spec' = r.job_spec
               /\ chunk_in' =
                     [start_date |-> schedule_metadata[sidx].start_date,
                      early_timestamp |-> payload_stages.early_timestamp,
                      end_date |-> execute_date,
                      round_hour |-> schedule_metadata[sidx].round_hour,
                      round_min |-> schedule_metadata[sidx].round_min,
                      schedule |-> schedules[sidx].freq,
                      chunk_size |-> payload_stages.chunk_size,
                      adjust |-> payload_stages.adjust,
                      today |-> DayOf(execute_date)]
               /\ chunks' = <<>>
               /\ chunk_pc' = "call"
               /\ cidx' = 1
               /\ trace' = <<>>
               /\ exec_pc' = "get_chunks"
       /\ UNCHANGED <<payload_stages, build_info, builds>>

\* execute: a due schedule; its preload stages are executed first, if any
ExecStartSchedule ==
    /\ UNCHANGED stage_vars
    /\ UNCHANGED batch_vars
    /\ UNCHANGED agg_vars
    /\ UNCHANGED now
    /\ UNCHANGED round_vars
    /\ UNCHANGED writer_vars
    /\ UNCHANGED merge_vars
    /\ exec_pc = "schedule"
    /\ sidx <= Len(schedules)
    /\ schedule_metadata[sidx].is_due
    /\ false_returned' = "no"
    /\ IF Len(preload_stages(payload_stages, stage_state)) # 0
       THEN /\ exec_pc' = "stages"
            /\ phase_idx' = 0
            /\ stage_idx' = 1
            /\ df_state' = [df |-> "empty", merge_df |-> "empty"]
            /\ job_constants' = data_merge(job_constants, FALSE)
            /\ UNCHANGED <<chunk_vars, build_vars, cidx, trace>>
       ELSE /\ build_and_chunk
            /\ UNCHANGED <<phase_idx, stage_idx, df_state, job_constants>>
    /\ UNCHANGED sched_vars
    /\ UNCHANGED <<execute_until, sidx, is_executed, future_executions,
                   history>>

\* execute: get_chunks has returned, the loop over the chunks begins
ExecGotChunks ==
    /\ UNCHANGED stage_vars
    /\ UNCHANGED batch_vars
    /\ UNCHANGED agg_vars
    /\ UNCHANGED round_vars
    /\ UNCHANGED writer_vars
    /\ UNCHANGED merge_vars
    /\ exec_pc = "get_chunks"
    /\ chunk_pc = "done"
    /\ exec_pc' = "chunk"
    /\ UNCHANGED <<sched_vars, chunk_vars, build_vars>>
    /\ UNCHANGED <<execute_until, sidx, cidx, phase_idx, stage_idx, df_state,
                   is_executed, future_executions, trace, history, now,
                   false_returned, job_constants>>

\* execute: the head of the loop over the chunks; the input level stages
\* start from df = None
ExecStartChunk ==
    /\ UNCHANGED stage_vars
    /\ UNCHANGED batch_vars
    /\ UNCHANGED agg_vars
    /\ UNCHANGED now
    /\ UNCHANGED round_vars
    /\ UNCHANGED writer_vars
    /\ UNCHANGED merge_vars
    /\ exec_pc = "chunk"
    /\ cidx <= Len(chunks)
    /\ exec_pc' = "stages"
    /\ phase_idx' = 1
    /\ stage_idx' = 1
    /\ df_state' = [df |-> "empty", merge_df |-> "empty"]
    /\ job_constants' =
          [data_merge(job_constants, TRUE) EXCEPT !.at_start = job_constants.job]
    /\ trace' = <<>>
    /\ false_returned' = "no"
    /\ UNCHANGED <<sched_vars, chunk_vars, build_vars>>
    /\ UNCHANGED <<execute_until, sidx, cidx, is_executed, future_executions,
                   history>>

\* an execute_stages without the guard on empty frames
stage_never_halts == FALSE

\* execute_stages: the stage would receive an empty frame and does not
\* allow it
stage_halts ==
    /\ stage_idx <= Len(current_stages)
    /\ ~allow_empty_df(payload_stages, current_stages[stage_idx])
    /\ df_state.merge_df = "empty"

\* execute_stages: one stage is executed and its result merged
ExecStage ==
    /\ UNCHANGED stage_vars
    /\ UNCHANGED batch_vars
    /\ UNCHANGED agg_vars
    /\ UNCHANGED now
    /\ UNCHANGED round_vars
    /\ UNCHANGED writer_vars
    /\ UNCHANGED merge_vars
    /\ exec_pc = "stages"
    /\ stage_idx <= Len(current_stages)
    /\ ~stage_halts
    /\ \E returned \in StageResults :
       \E result \in {execute_stage(returned)} :
          /\ false_returned' =
                IF false_returned # "no" THEN "followed"
                ELSE IF result = "false" THEN "returned"
                ELSE "no"
          /\ trace' =
                IF phase_idx = 0 THEN trace
                ELSE Append(trace, [phase |-> phase_idx,
                                    kind |-> current_stages[stage_idx].kind,
                                    name |-> current_stages[stage_idx].name,
                                    df_in |-> df_state.merge_df])
          /\ IF \/ no_output_list(payload_stages, stage_state,
                               current_stages[stage_idx])
                \/ merge_raises(payload_stages, stage_state,
                                current_stages[stage_idx], result)
             THEN /\ exec_pc' = "raised"
                  /\ history' = history \cup
                        {[sidx |-> sidx,
                          cidx |-> IF phase_idx = 0 THEN 0 ELSE cidx,
                          result |-> "fatal"]}
                  /\ UNCHANGED <<df_state, stage_idx, job_constants>>
             ELSE /\ df_state' =
                        [df_state EXCEPT !.merge_df =
                            merged_df(current_stages[stage_idx], @, result)]
                  /\ job_constants' =
                        merged_constants(payload_stages, stage_state,
                                         current_stages[stage_idx],
                                         df_state.merge_df, result,
                                         job_constants)
                  /\ stage_idx' = stage_idx + 1
                  /\ UNCHANGED <<exec_pc, history>>
    /\ UNCHANGED <<sched_vars, chunk_vars, build_vars>>
    /\ UNCHANGED <<execute_until, sidx, cidx, phase_idx, is_executed,
                   future_executions>>

\* a controller that would skip the chunk of a failing stage and go on
ExecStageRaises_contained ==
    /\ UNCHANGED stage_vars
    /\ UNCHANGED batch_vars
    /\ UNCHANGED agg_vars
    /\ UNCHANGED job_constants
    /\ UNCHANGED false_returned
    /\ UNCHANGED now
    /\ UNCHANGED round_vars
    /\ UNCHANGED writer_vars
    /\ UNCHANGED merge_vars
    /\ exec_pc = "stages"
    /\ phase_idx >= 1
    /\ stage_idx <= Len(current_stages)
    /\ ~stage_halts
    /\ exec_pc' = "chunk"
    /\ cidx' = cidx + 1
    /\ history' = history \cup
          {[sidx |-> sidx, cidx |-> cidx, result |-> "fatal"]}
    /\ UNCHANGED <<sched_vars, chunk_vars, build_vars>>
    /\ UNCHANGED <<execute_until, sidx, phase_idx, stage_idx, df_state,
                   is_executed, future_executions, trace>>

\* execute_stages: the stage, its merge or its write raises; the exception
\* propagates through execute_stages and execute
ExecStageRaises ==
    /\ UNCHANGED stage_vars
    /\ UNCHANGED batch_vars
    /\ UNCHANGED agg_vars
    /\ UNCHANGED job_constants
    /\ UNCHANGED false_returned
    /\ UNCHANGED now
    /\ UNCHANGED round_vars
    /\ UNCHANGED writer_vars
    /\ UNCHANGED merge_vars
    /\ exec_pc = "stages"
    /\ stage_idx <= Len(current_stages)
    /\ ~stage_halts
    /\ exec_pc' = "raised"
    /\ history' = history \cup
          {[sidx |-> sidx, cidx |-> IF phase_idx = 0 THEN 0 ELSE cidx,
            result |-> "fatal"]}
    /\ UNCHANGED <<sched_vars, chunk_vars, build_vars>>
    /\ UNCHANGED <<execute_until, sidx, cidx, phase_idx, stage_idx, df_state,
                   is_executed, future_executions, trace>>

\* what execute does with the (df, can_proceed) of a list of stages that
\* is not the preload list
after_phase(can_proceed) ==
    IF phase_idx = 1 /\ ~can_proceed
    THEN \* input level halted: continue with the next chunk
         /\ history' = history \cup
               {[sidx |-> sidx, cidx |-> cidx, result |-> "halted"]}
         /\ cidx' = cidx + 1
         /\ exec_pc' = "chunk"
         /\ \E d \in ChunkDurations : now' = TAdd(now, d)
         /\ UNCHANGED <<phase_idx, stage_idx, df_state, job_constants>>
    ELSE IF phase_idx < Len(job_spec)
    THEN \* the next granularity starts from the input level frame
         /\ phase_idx' = phase_idx + 1
         /\ stage_idx' = 1
         /\ df_state' =
               IF phase_idx = 1
               THEN [df |-> df_state.merge_df, merge_df |-> df_state.merge_df]
               ELSE [df_state EXCEPT !.merge_df = df_state.df]
         /\ job_constants' = data_merge(job_constants, FALSE)
         /\ UNCHANGED <<history, cidx, exec_pc, now>>
    ELSE \* the chunk is done: the loop over the chunks takes the next one
         \* whatever the time
         /\ history' = history \cup
               {[sidx |-> sidx, cidx |-> cidx, result |-> "completed"]}
         /\ cidx' = cidx + 1
         /\ exec_pc' = "chunk"
         /\ \E d \in ChunkDurations : now' = TAdd(now, d)
         /\ UNCHANGED <<phase_idx, stage_idx, df_state, job_constants>>

\* execute_stages returns (merge.df, can_proceed) for the input level or a
\* granularity
ExecPhaseDone ==
    /\ UNCHANGED stage_vars
    /\ UNCHANGED batch_vars
    /\ UNCHANGED agg_vars
    /\ UNCHANGED false_returned
    /\ UNCHANGED round_vars
    /\ UNCHANGED writer_vars
    /\ UNCHANGED merge_vars
    /\ exec_pc = "stages"
    /\ phase_idx >= 1
    /\ \/ stage_idx > Len(current_stages) /\ after_phase(TRUE)
       \/ stage_halts /\ after_phase(FALSE)
    /\ UNCHANGED <<sched_vars, chunk_vars, build_vars>>
    /\ UNCHANGED <<execute_until, sidx, is_executed, future_executions, trace>>

\* execute_stages returns for the preload stages: the schedule is skipped
\* when they cannot proceed, else the job spec is built
ExecPreloadDone ==
    /\ UNCHANGED stage_vars
    /\ UNCHANGED batch_vars
    /\ UNCHANGED agg_vars
    /\ UNCHANGED false_returned
    /\ UNCHANGED now
    /\ UNCHANGED round_vars
    /\ UNCHANGED writer_vars
    /\ UNCHANGED merge_vars
    /\ exec_pc = "stages"
    /\ phase_idx = 0
    /\ \/ /\ stage_idx > Len(current_stages)
          /\ job_constants' =
                [job_constants EXCEPT
                   !.job = @ \cup preload_cols(payload_stages, stage_state)]
          /\ build_and_chunk
          /\ UNCHANGED sidx
       \/ /\ stage_halts
          /\ sidx' = sidx + 1
          /\ exec_pc' = "schedule"
          /\ UNCHANGED <<chunk_vars, build_vars, cidx, trace, job_constants>>
    /\ UNCHANGED sched_vars
    /\ UNCHANGED <<execute_until, phase_idx, stage_idx, df_state, is_executed,
                   future_executions, history>>

\* execute: after the loop over the chunks, log_completion for every
\* schedule of mark_complete
ExecLog ==
    /\ UNCHANGED stage_vars
    /\ UNCHANGED batch_vars
    /\ UNCHANGED agg_vars
    /\ UNCHANGED job_constants
    /\ UNCHANGED false_returned
    /\ UNCHANGED now
    /\ UNCHANGED round_vars
    /\ UNCHANGED writer_vars
    /\ UNCHANGED merge_vars
    /\ exec_pc = "chunk"
    /\ cidx > Len(chunks)
    /\ job_log' = log_completion(job_log,
                                 schedule_metadata[sidx].mark_complete,
                                 execute_date)
    /\ is_executed' = TRUE
    /\ sidx' = sidx + 1
    /\ exec_pc' = "schedule"
    /\ UNCHANGED <<schedules, is_schedule_progressive, execute_date,
                   schedule_metadata, sched_pc, ticks>>
    /\ UNCHANGED <<chunk_vars, build_vars>>
    /\ UNCHANGED <<execute_until, cidx, phase_idx, stage_idx, df_state,
                   future_executions, trace, history>>

\* execute: the end of a pass of the while loop, execute_date = utcnow()
next_pass(utcnow) ==
    /\ execute_date' = utcnow
    /\ now' = utcnow
    /\ exec_pc' = IF TLe(utcnow, execute_until) THEN "tick" ELSE "done"

\* execute: a pass that executed a schedule
ExecEndTick ==
    /\ UNCHANGED stage_vars
    /\ UNCHANGED batch_vars
    /\ UNCHANGED agg_vars
    /\ UNCHANGED job_constants
    /\ UNCHANGED false_returned
    /\ UNCHANGED round_vars
    /\ UNCHANGED writer_vars
    /\ UNCHANGED merge_vars
    /\ exec_pc = "schedule"
    /\ sidx > Len(schedules)
    /\ is_executed
    /\ \E d \in PassDeltas(ticks) : next_pass(TAdd(now, d))
    /\ UNCHANGED <<schedules, is_schedule_progressive, job_log,
                   schedule_metadata, sched_pc, ticks>>
    /\ UNCHANGED <<chunk_vars, build_vars>>
    /\ UNCHANGED <<execute_until, sidx, cidx, phase_idx, stage_idx, df_state,
                   is_executed, future_executions, trace, history>>

\* execute: nothing was executed and nothing is pending before
\* execute_until: break
ExecAbort ==
    /\ UNCHANGED stage_vars
    /\ UNCHANGED batch_vars
    /\ UNCHANGED agg_vars
    /\ UNCHANGED job_constants
    /\ UNCHANGED false_returned
    /\ UNCHANGED now
    /\ UNCHANGED round_vars
    /\ UNCHANGED writer_vars
    /\ UNCHANGED merge_vars
    /\ exec_pc = "schedule"
    /\ sidx > Len(schedules)
    /\ ~is_executed
    /\ future_executions = {}
    /\ exec_pc' = "done"
    /\ UNCHANGED <<sched_vars, chunk_vars, build_vars>>
    /\ UNCHANGED <<execute_until, sidx, cidx, phase_idx, stage_idx, df_state,
                   is_executed, future_executions, trace, history>>

\* execute: nothing was executed but an execution is pending; the wait
\* calls time.sleep, and the module never imports time: NameError.  When
\* the pending execution is already past there is no wait.
ExecWait ==
    /\ UNCHANGED stage_vars
    /\ UNCHANGED batch_vars
    /\ UNCHANGED agg_vars
    /\ UNCHANGED job_constants
    /\ UNCHANGED false_returned
    /\ UNCHANGED round_vars
    /\ UNCHANGED writer_vars
    /\ UNCHANGED merge_vars
    /\ exec_pc = "schedule"
    /\ sidx > Len(schedules)
    /\ ~is_executed
    /\ future_executions # {}
    /\ \E d1 \in PassDeltas(ticks) :
          IF TLt(TAdd(now, d1), TMin(future_executions))
          THEN exec_pc' = "raised" /\ UNCHANGED <<execute_date, now>>
          ELSE \E d2 \in PassDeltas(ticks) :
                  TLe(d1, d2) /\ next_pass(TAdd(now, d2))
    /\ UNCHANGED <<schedules, is_schedule_progressive, job_log,
                   schedule_metadata, sched_pc, ticks>>
    /\ UNCHANGED <<chunk_vars, build_vars>>
    /\ UNCHANGED <<execute_until, sidx, cidx, phase_idx, stage_idx, df_state,
                   is_executed, future_executions, trace, history>>

ExecNext ==
    \/ ExecEvaluate
    \/ ExecSkipSchedule
    \/ ExecStartSchedule
    \/ GetChunksFirst
    \/ GetChunksTest
    \/ GetChunksNext
    \/ GetChunksReturn
    \/ ExecGotChunks
    \/ ExecStartChunk
    \/ ExecStage
    \/ ExecStageRaises
    \/ ExecPhaseDone
    \/ ExecPreloadDone
    \/ ExecLog
    \/ ExecEndTick
    \/ ExecAbort
    \/ ExecWait

SpecExec == ExecInit /\ [][ExecNext]_vars


-----------------------------------------------------------------------------
(* Claims about JobController.execute *)

\* the outcomes recorded for chunk c of the schedule being processed
OutcomesOf(c) == {h.result : h \in {x \in history : x.sidx = sidx /\ x.cidx = c}}

\* the rows of the job log written at the execute date of this pass for
\* the schedules of mark_complete of schedule i
RowsLogged(i) ==
    {r \in job_log : /\ r.object_name = JobName
                     /\ r.last_update = execute_date
                     /\ \E k \in DOMAIN schedule_metadata[i].mark_complete :
                           r.schedule = schedule_metadata[i].mark_complete[k]}

\* C2: job-log rows are written only when every chunk of the due schedule
\* has been processed and none ended with a fatal error, and the rows are
\* those of its mark_complete; a schedule with a chunk that ended with a
\* fatal error has no job-log row for this pass.
C2_LogAfterAllChunks ==
    /\ [][job_log' # job_log =>
            /\ exec_pc = "chunk"
            /\ \A c \in 1..Len(chunks) :
                  /\ OutcomesOf(c) # {}
                  /\ OutcomesOf(c) \subseteq {"completed", "halted"}
            /\ "fatal" \notin {h.result : h \in {x \in history : x.sidx = sidx}}
            /\ job_log' = log_completion(job_log,
                             schedule_metadata[sidx].mark_complete,
                             execute_date)]_vars
    /\ [](\A h \in history : h.result = "fatal" => RowsLogged(h.sidx) = {})

\* a schedule with two chunks was processed and logged
C2_Witness ==
    /\ exec_pc = "schedule"
    /\ sidx >= 2
    /\ schedule_metadata[sidx - 1].is_due
    /\ Len(chunks) >= 2
    /\ \A c \in 1..Len(chunks) :
          \E h \in history : h.sidx = sidx - 1 /\ h.cidx = c
                             /\ h.result = "completed"
    /\ RowsLogged(sidx - 1) # {}

\* chunks of due schedules of this pass that were not processed
UnprocessedWork ==
    \/ \E c \in 1..Len(chunks) : c > cidx
    \/ \E i \in 1..Len(schedules) : i > sidx /\ schedule_metadata[i].is_due

\* C3: a fatal error in a chunk does not end execute while other chunks of
\* the schedule or other due schedules of the pass are still to be
\* processed.
C3_FatalErrorsContained ==
    ~(/\ exec_pc = "raised"
      /\ \E h \in history : h.result = "fatal" /\ h.sidx = sidx
                            /\ h.cidx = cidx /\ cidx >= 1
      /\ UnprocessedWork)

\* the stage entries of phase k that are not the writer
NonWriters(k) == {s \in Range(job_spec[k].stages) : s.kind # "writer"}

\* entry j of the trace was preceded by the stage s of phase k
RanBefore(j, k, s) ==
    \E i \in 1..(j - 1) : trace[i].phase = k /\ trace[i].name = s.name

\* C10: within a chunk, every stage of 'input_level' runs before any
\* aggregator; in a granularity phase the aggregator runs before the other
\* stages of the phase; the writer of a phase runs after all non-writer
\* stages of the phase; the job spec has 'input_level' first and a writer
\* as the last and only writer of each phase.
C10_ExecutionOrder ==
    /\ job_spec # <<>> =>
          /\ job_spec[1].phase = "input_level"
          /\ \A k \in DOMAIN job_spec :
                /\ k > 1 => job_spec[k].phase # "input_level"
                /\ job_spec[k].stages # <<>>
                /\ \A n \in DOMAIN job_spec[k].stages :
                      (job_spec[k].stages[n].kind = "writer")
                         <=> (n = Len(job_spec[k].stages))
    /\ \A j \in DOMAIN trace :
          /\ trace[j].kind = "aggregator" =>
                /\ trace[j].phase > 1
                /\ \A s \in Range(job_spec[1].stages) : RanBefore(j, 1, s)
                /\ \A i \in 1..(j - 1) : trace[i].phase < trace[j].phase
          /\ trace[j].phase = 1 =>
                \A i \in 1..(j - 1) : trace[i].kind # "aggregator"
          /\ (trace[j].phase > 1 /\ trace[j].kind # "aggregator") =>
                \E i \in 1..(j - 1) : /\ trace[i].phase = trace[j].phase
                                      /\ trace[i].kind = "aggregator"
          /\ trace[j].kind = "writer" =>
                \A s \in NonWriters(trace[j].phase) :
                   RanBefore(j, trace[j].phase, s)

\* a chunk ran through the input level and a granularity with a transform
C10_Witness ==
    /\ exec_pc = "stages"
    /\ \E j \in DOMAIN trace :
          /\ trace[j].kind = "writer"
          /\ trace[j].phase > 1
          /\ \E i \in 1..(j - 1) : /\ trace[i].phase = trace[j].phase
                                   /\ trace[i].kind = "stage"
    /\ \E j \in DOMAIN trace : trace[j].kind = "writer" /\ trace[j].phase = 1


-----------------------------------------------------------------------------
(* DataMerge                                                               *)
(*                                                                         *)
(* A frame is a record: idx the names of its index levels (<<>> for an     *)
(* un-named index), rows the set of its index keys (tuples), cols the      *)
(* list of its column names and data[r][c] the cell of row r and column c. *)
(* Null is a missing value (None, NaN).                                    *)

Null == -1

\* pd.DataFrame()
EmptyFrame ==
    [idx |-> <<>>, rows |-> {}, cols |-> <<>>, data |-> [r \in {} |-> <<>>]]

\* a frame whose cells all hold v
MakeFrame(idx, rows, cols, v) ==
    [idx |-> idx, rows |-> rows, cols |-> cols,
     data |-> [r \in rows |-> [c \in Range(cols) |-> v]]]

\* position of x in the list seq
Pos(seq, x) == CHOOSE i \in DOMAIN seq : seq[i] = x

\* DataFrame.empty
df_empty(f) == f.rows = {} \/ Len(f.cols) = 0

\* DataMerge.get_index_names
get_index_names(f) == f.idx

\* DataMerge.get_cols
get_cols(f) == Range(get_index_names(f)) \cup Range(f.cols)

\* self.df[c] = vals, vals giving the value of each row
set_item(f, c, vals) ==
    CHOOSE out \in
      { [f EXCEPT !.cols = cols2,
                  !.data = [r \in f.rows |->
                              [x \in Range(cols2) |->
                                 IF x = c THEN vals[r] ELSE f.data[r][x]]]]
        : cols2 \in {IF c \in Range(f.cols) THEN f.cols
                     ELSE Append(f.cols, c)} }
      : TRUE

\* self.df[c] = value for a scalar or None
set_scalar(f, c, value) == set_item(f, c, [r \in f.rows |-> value])

\* DataMerge.apply_constants with the constants untouched
apply_constants_skipped(f, constants) == f

\* DataMerge.apply_constants: self.df[name] = value for every constant,
\* in the order of the dict (the order in which the names were entered)
RECURSIVE apply_constants(_, _)
apply_constants(f, constants) ==
    IF constants = <<>> THEN f
    ELSE CHOOSE out \in
           { apply_constants(g, Tail(constants))
             : g \in {set_scalar(f, Head(constants).name,
                                 Head(constants).value)} }
           : TRUE

\* "%s%s" % (o, suffix) for the suffix r_suffix = '_new_'
NewNames ==
    ("a" :> "a_new_") @@ ("b" :> "b_new_") @@ ("c" :> "c_new_") @@
    ("k" :> "k_new_") @@ ("x" :> "x_new_") @@ ("y" :> "y_new_") @@
    ("id" :> "id_new_") @@ ("ts" :> "ts_new_")

with_suffix(o) == IF o \in DOMAIN NewNames THEN NewNames[o] ELSE "_new__new_"

\* DataMerge.coalesce_cols: a column o with a variant o_new_ keeps its value
\* where it has one and takes the variant's where it is null; the variants
\* are dropped
coalesce_cols(f) ==
    CHOOSE out \in
      { [f EXCEPT !.cols = SelectSeq(f.cols, LAMBDA x : x \notin altered),
                  !.data = [r \in f.rows |->
                              [x \in Range(f.cols) \ altered |->
                                 IF with_suffix(x) \in altered
                                    /\ f.data[r][x] = Null
                                 THEN f.data[r][with_suffix(x)]
                                 ELSE f.data[r][x]]]]
        : altered \in {{with_suffix(o) : o \in Range(f.cols)}
                         \cap Range(f.cols)} }
      : TRUE

\* df.columns = col_names when the lengths agree
rename_columns(df, col_names) ==
    IF Len(col_names) = Len(df.cols)
    THEN [df EXCEPT !.cols = col_names,
                    !.data = [r \in df.rows |->
                                [x \in Range(col_names) |->
                                   df.data[r][df.cols[Pos(col_names, x)]]]]]
    ELSE df

\* df.name = col_names[0]; df.to_frame()
series_to_frame(df, col_names) ==
    [df EXCEPT !.cols = <<col_names[1]>>,
               !.data = [r \in df.rows |->
                           [x \in {col_names[1]} |-> df.data[r][df.cols[1]]]]]

\* the cell of column c in row r of f, null when f has no such row
cell(f, r, c) == IF r \in f.rows THEN f.data[r][c] ELSE Null

\* left.merge(right, how, left_index=True, right_index=True,
\* suffixes=('', '_new_')) for how = 'outer'
merge_outer(left, right) ==
    CHOOSE out \in
      { [idx |-> left.idx,
         rows |-> left.rows \cup right.rows,
         cols |-> left.cols \o rcols,
         data |-> [r \in left.rows \cup right.rows |->
                     [x \in Range(left.cols) \cup Range(rcols) |->
                        IF x \in Range(left.cols) THEN cell(left, r, x)
                        ELSE cell(right, r, right.cols[Pos(rcols, x)])]]]
        : rcols \in
            { [i \in DOMAIN right.cols |->
                 IF right.cols[i] \in Range(left.cols)
                 THEN with_suffix(right.cols[i]) ELSE right.cols[i]] } }
      : TRUE

\* the value of the key named n in row r of f: an index level or a column
key_value(f, r, n) ==
    IF n \in Range(f.idx) THEN r[Pos(f.idx, n)] ELSE f.data[r][n]

\* a lookup with an inner join: the rows without a match are dropped
merge_lookup_inner(left, right) ==
    CHOOSE out \in
      { [idx |-> left.idx,
         rows |-> matched,
         cols |-> left.cols \o right.cols,
         data |-> [r \in matched |->
                     [x \in Range(left.cols) \cup Range(right.cols) |->
                        IF x \in Range(left.cols) THEN left.data[r][x]
                        ELSE cell(right, <<key_value(left, r, right.idx[1])>>,
                                  x)]]]
        : matched \in
            { {r \in left.rows :
                 <<key_value(left, r, right.idx[1])>> \in right.rows} } }
      : TRUE

\* the rows of a frame in their order; a frame of the model lists its rows
\* in increasing order of their keys
RECURSIVE key_before(_, _)
key_before(r, s) ==
    IF r = <<>> \/ s = <<>> THEN FALSE
    ELSE Head(r) < Head(s)
         \/ (Head(r) = Head(s) /\ key_before(Tail(r), Tail(s)))

row_number(f, r) == Cardinality({s \in f.rows : key_before(s, r)})

\* DataFrame.reset_index(): the index levels become the first columns
\* (an un-named index becomes the column 'index', or 'level_0' when there
\* is a column 'index'), the rows are numbered from 0 by an un-named index
reset_index(f) ==
    CHOOSE out \in
      { [idx |-> <<>>,
         rows |-> {<<row_number(f, r)>> : r \in f.rows},
         cols |-> levels \o f.cols,
         data |-> [k \in {<<row_number(f, r)>> : r \in f.rows} |->
                     [x \in Range(levels) \cup Range(f.cols) |->
                        IF x \in Range(f.cols) THEN f.data[old[k]][x]
                        ELSE old[k][Pos(levels, x)]]]]
        : <<levels, old>> \in
            { <<IF f.idx # <<>> THEN f.idx
                ELSE IF "index" \in Range(f.cols) THEN <<"level_0">>
                ELSE <<"index">>,
                [k \in {<<row_number(f, r)>> : r \in f.rows} |->
                    CHOOSE r \in f.rows : row_number(f, r) = k[1]]>> } }
      : TRUE

\* left.merge(right, 'left', on=key, suffixes=('', '_new_')): key is a
\* column of left and the name of the index of right
merge_left_on(left, right, key) ==
    CHOOSE out \in
      { [idx |-> <<>>,
         rows |-> left.rows,
         cols |-> left.cols \o rcols,
         data |-> [r \in left.rows |->
                     [x \in Range(left.cols) \cup Range(rcols) |->
                        IF x \in Range(left.cols) THEN left.data[r][x]
                        ELSE cell(right, <<left.data[r][key]>>,
                                  right.cols[Pos(rcols, x)])]]]
        : rcols \in
            { [i \in DOMAIN right.cols |->
                 IF right.cols[i] \in Range(left.cols)
                 THEN with_suffix(right.cols[i]) ELSE right.cols[i]] } }
      : TRUE

\* DataFrame.set_index(names) for a non-empty list of names of columns
set_index(f, names) ==
    CHOOSE out \in
      { [idx |-> names,
         rows |-> {key[r] : r \in f.rows},
         cols |-> cols2,
         data |-> [k \in {key[r] : r \in f.rows} |->
                     [x \in Range(cols2) |->
                        f.data[CHOOSE r \in f.rows : key[r] = k][x]]]]
        : <<cols2, key>> \in
            { <<SelectSeq(f.cols, LAMBDA x : x \notin Range(names)),
                [r \in f.rows |-> [i \in DOMAIN names |-> f.data[r][names[i]]]]>> } }
      : TRUE

\* self.df.reset_index().merge(df, 'left', on=df.index.name,
\* suffixes=('', '_new_')).set_index(df_index_names)
merge_lookup(left, right) ==
    set_index(merge_left_on(reset_index(left), right, right.idx[1]), left.idx)


\* the outcome of a merge: the frame and constants of the DataMerge, the
\* strategy used, and whether an exception was raised
MergeResult(raised, df, constants, strategy) ==
    [raised |-> raised, df |-> df, constants |-> constants,
     strategy |-> strategy]

\* merge_dataframe: the merge strategy chosen for the incoming frame df
\* a selection that compares the index names before the index values
merge_strategy_names_first(self_df, df, col_names, force_overwrite) ==
    IF df_empty(df) THEN "skip"
    ELSE IF df_empty(self_df) THEN "replace"
    ELSE IF get_index_names(df) = get_index_names(self_df) THEN "outer"
    ELSE IF df.rows = self_df.rows
    THEN IF Range(col_names) \subseteq Range(self_df.cols) /\ ~force_overwrite
         THEN "skip" ELSE "slice"
    ELSE IF Len(get_index_names(df)) = 1 THEN "lookup"
    ELSE "none"

merge_strategy(self_df, df, col_names, force_overwrite) ==
    IF df_empty(df) THEN "skip"
    ELSE IF df_empty(self_df) THEN "replace"
    ELSE IF df.rows = self_df.rows
    THEN IF Range(col_names) \subseteq Range(self_df.cols) /\ ~force_overwrite
         THEN "skip" ELSE "slice"
    ELSE IF get_index_names(df) = get_index_names(self_df) THEN "outer"
    ELSE IF Len(get_index_names(df)) = 1 THEN "lookup"
    ELSE "none"

\* merge strategy 'skip': a null column for every name that is not a column
RECURSIVE add_missing_cols(_, _)
add_missing_cols(f, col_names) ==
    IF col_names = <<>> THEN f
    ELSE CHOOSE out \in
           { add_missing_cols(g, Tail(col_names))
             : g \in {IF Head(col_names) \in Range(f.cols) THEN f
                      ELSE set_scalar(f, Head(col_names), Null)} }
           : TRUE

\* merge strategy 'slice': self.df[c] = df[c] for every column of df
RECURSIVE slice_cols(_, _, _)
slice_cols(f, df, cols) ==
    IF cols = <<>> THEN f
    ELSE CHOOSE out \in
           { slice_cols(g, df, Tail(cols))
             : g \in {set_item(f, Head(cols),
                               [r \in f.rows |-> df.data[r][Head(cols)]])} }
           : TRUE

\* DataMerge.merge_dataframe for a frame df whose columns were renamed
merge_frame(self_df, constants, df, col_names, strategy) ==
    IF strategy = "skip"
    THEN MergeResult(FALSE, add_missing_cols(self_df, col_names), constants,
                     strategy)
    ELSE IF strategy = "replace"
    THEN MergeResult(FALSE, apply_constants(df, constants), constants,
                     strategy)
    ELSE IF strategy = "slice"
    THEN MergeResult(FALSE, slice_cols(self_df, df, df.cols), constants,
                     strategy)
    ELSE IF strategy = "outer"
    THEN MergeResult(FALSE,
                     apply_constants(coalesce_cols(merge_outer(self_df, df)),
                                     constants),
                     constants, strategy)
    ELSE IF strategy = "lookup"
    THEN IF \/ get_index_names(df)[1] \notin get_cols(self_df)
            \/ Range(self_df.idx) \cap Range(self_df.cols) # {}
         THEN \* the check of the index name or reset_index raises
              MergeResult(TRUE, self_df, constants, strategy)
         ELSE IF get_index_names(df)[1] \in Range(df.cols)
         THEN \* merge raises for a name that is an index level and a
              \* column of df; self.df is the frame of reset_index
              MergeResult(TRUE, reset_index(self_df), constants, strategy)
         ELSE IF get_index_names(self_df) = <<>>
         THEN \* set_index([]) raises; self.df is the joined frame
              MergeResult(TRUE,
                          merge_left_on(reset_index(self_df), df,
                                        get_index_names(df)[1]),
                          constants, strategy)
         ELSE MergeResult(FALSE, coalesce_cols(merge_lookup(self_df, df)),
                          constants, strategy)
    ELSE MergeResult(TRUE, self_df, constants, strategy)

\* DataMerge.merge_dataframe
merge_dataframe(self_df, constants, obj, col_names, force_overwrite) ==
    CHOOSE out \in
      { merge_frame(self_df, constants, df, col_names,
                    merge_strategy(self_df, df, col_names, force_overwrite))
        : df \in {IF obj.kind = "series"
                  THEN series_to_frame(obj.frame, col_names)
                  ELSE rename_columns(obj.frame, col_names)} }
      : TRUE

\* self.constants[name] = value
with_constant(constants, name, value) ==
    IF \E i \in DOMAIN constants : constants[i].name = name
    THEN [i \in DOMAIN constants |->
            IF constants[i].name = name
            THEN [constants[i] EXCEPT !.value = value] ELSE constants[i]]
    ELSE Append(constants, [name |-> name, value |-> value])

\* DataMerge.merge_non_dataframe for a scalar or None
merge_non_dataframe(self_df, constants, obj, col_names) ==
    IF Len(col_names) = 1
    THEN IF df_empty(self_df)
         THEN MergeResult(FALSE, set_scalar(self_df, col_names[1], obj.value),
                          with_constant(constants, col_names[1], obj.value),
                          "constant")
         ELSE MergeResult(FALSE, set_scalar(self_df, col_names[1], obj.value),
                          constants, "scalar")
    ELSE MergeResult(TRUE, self_df, constants, "none")

\* the check at the end of DataMerge.execute
postcondition_never_fails(f, col_names) == FALSE

postcondition_fails(f, col_names) ==
    ~df_empty(f) /\ ~(Range(col_names) \subseteq get_cols(f))

\* DataMerge.execute after a 2-d array was converted to a frame
execute_converted(self_df, constants, obj, col_names, force_overwrite) ==
    CHOOSE out \in
      { IF ~r.raised /\ postcondition_fails(r.df, col_names)
        THEN [r EXCEPT !.raised = TRUE]
        ELSE r
        : r \in {IF obj.kind \in {"frame", "series"}
                 THEN merge_dataframe(self_df, constants, obj, col_names,
                                      force_overwrite)
                 ELSE merge_non_dataframe(self_df, constants, obj,
                                          col_names)} }
      : TRUE

\* DataMerge.execute
DataMerge_execute(self_df, constants, obj, col_names, force_overwrite) ==
    IF obj.kind = "dict"
    THEN MergeResult(TRUE, self_df, constants, "none")
    ELSE IF Len(col_names) > 1 /\ obj.kind \in {"scalar", "array"}
    THEN \* convert_to_df
         IF \/ obj.kind = "scalar"
            \/ obj.ncols # Len(col_names)
            \/ obj.nrows # Cardinality(self_df.rows)
         THEN MergeResult(TRUE, self_df, constants, "none")
         ELSE execute_converted(
                 self_df, constants,
                 [obj EXCEPT !.kind = "frame",
                             !.frame = MakeFrame(self_df.idx, self_df.rows,
                                                 col_names, obj.value)],
                 col_names, force_overwrite)
    ELSE execute_converted(self_df, constants, obj, col_names,
                           force_overwrite)

MaxMerges == 2

\* the objects a stage may return
Obj(kind, frame, value, nrows, ncols) ==
    [kind |-> kind, frame |-> frame, value |-> value, nrows |-> nrows,
     ncols |-> ncols]

FrameObj(idx, rows, cols, v) ==
    Obj("frame", MakeFrame(idx, rows, cols, v), Null, 0, 0)

DeviceRows == {<<1, 1>>, <<1, 2>>}

MergeObjects ==
    { FrameObj(<<"id", "ts">>, DeviceRows, <<"b">>, 2),
      FrameObj(<<"id", "ts">>, DeviceRows, <<"a">>, 3),
      FrameObj(<<"id", "ts">>, {<<1, 2>>, <<2, 1>>}, <<"a", "k">>, 4),
      FrameObj(<<"id", "ts">>, {<<3, 1>>}, <<"b">>, 4),
      FrameObj(<<"id">>, {<<1>>, <<3>>}, <<"c">>, 5),
      FrameObj(<<"a">>, {<<1>>}, <<"c">>, 5),
      FrameObj(<<"id">>, {<<1>>, <<3>>}, <<"a">>, 5),
      FrameObj(<<"id">>, {<<1>>}, <<"ts">>, 5),
      FrameObj(<<"zz">>, {<<1>>}, <<"c">>, 5),
      FrameObj(<<"id", "zz">>, {<<1, 1>>}, <<"c">>, 5),
      FrameObj(<<>>, {<<0>>}, <<"b">>, 6),
      FrameObj(<<"id", "ts">>, {}, <<"b">>, Null),
      Obj("frame", EmptyFrame, Null, 0, 0),
      Obj("series", MakeFrame(<<"id", "ts">>, DeviceRows, <<"s">>, 6),
          Null, 0, 0),
      Obj("scalar", EmptyFrame, 8, 0, 0),
      Obj("none", EmptyFrame, Null, 0, 0),
      Obj("dict", EmptyFrame, Null, 0, 0),
      Obj("array", EmptyFrame, 9, 2, 2) }

MergeColNames ==
    { <<"b">>, <<"a">>, <<"c">>, <<"a", "k">>, <<"x", "y">> }

\* a dict of constants: the (name, value) pairs in the order in which the
\* names were entered
NoConstants == <<>>

NoCall ==
    [obj |-> Obj("none", EmptyFrame, Null, 0, 0), col_names |-> <<>>,
     force_overwrite |-> FALSE, strategy |-> "none", raised |-> FALSE,
     before_df |-> EmptyFrame, before_constants |-> NoConstants]

\* DataMerge(df=df, constants=constants)
MergeInit ==
    /\ StageIdle
    /\ BatchIdle
    /\ AggIdle
    /\ RoundIdle
    /\ WriterIdle
    /\ SchedIdle
    /\ ChunkIdle
    /\ BuildIdle
    /\ ExecIdle
    /\ merge_df \in {EmptyFrame,
                     MakeFrame(<<"id", "ts">>, DeviceRows, <<"a">>, 1)}
    /\ merge_constants \in {NoConstants, <<[name |-> "k", value |-> 7]>>}
    /\ merge_pc = "ready"
    /\ merge_call = NoCall
    /\ merges = 0

\* merge.execute(obj=result, col_names=new_cols)
MergeExecute ==
    /\ UNCHANGED stage_vars
    /\ UNCHANGED batch_vars
    /\ UNCHANGED agg_vars
    /\ UNCHANGED round_vars
    /\ UNCHANGED writer_vars
    /\ merge_pc = "ready"
    /\ merges < MaxMerges
    /\ \E obj \in MergeObjects, col_names \in MergeColNames,
          force_overwrite \in BOOLEAN :
          /\ obj.kind = "array" => Len(col_names) > 1
          /\ \E r \in {DataMerge_execute(merge_df, merge_constants, obj,
                                         col_names, force_overwrite)} :
                /\ merge_df' = r.df
                /\ merge_constants' = r.constants
                /\ merge_pc' = IF r.raised THEN "raised" ELSE "ready"
                /\ merge_call' =
                      [obj |-> obj, col_names |-> col_names,
                       force_overwrite |-> force_overwrite,
                       strategy |-> r.strategy, raised |-> r.raised,
                       before_df |-> merge_df,
                       before_constants |-> merge_constants]
    /\ merges' = merges + 1
    /\ UNCHANGED <<sched_vars, chunk_vars, build_vars, exec_vars>>

\* merge.clear_data()
MergeClearData ==
    /\ UNCHANGED stage_vars
    /\ UNCHANGED batch_vars
    /\ UNCHANGED agg_vars
    /\ UNCHANGED round_vars
    /\ UNCHANGED writer_vars
    /\ merge_pc = "ready"
    /\ merge_df' = EmptyFrame
    /\ merge_constants' = NoConstants
    /\ merge_call' = NoCall
    /\ UNCHANGED <<merge_pc, merges>>
    /\ UNCHANGED <<sched_vars, chunk_vars, build_vars, exec_vars>>

MergeNext == MergeExecute \/ MergeClearData

SpecMerge == MergeInit /\ [][MergeNext]_vars


-----------------------------------------------------------------------------
(* Claims about DataMerge *)

\* C7: when execute(obj, col_names) returns normally every name of
\* col_names is a column or an index name of the resulting frame (a call
\* that does not return normally raised).
C7_MergePostcondition ==
    (merge_call.strategy # "none" /\ ~merge_call.raised) =>
        Range(merge_call.col_names) \subseteq get_cols(merge_df)

\* execute returned normally with an empty frame (the check at the end of
\* execute does not look at an empty frame), and a call returned normally
\* after the check looked at a frame with rows
C7_Witness ==
    /\ merge_pc = "ready"
    /\ merge_call.strategy = "skip"
    /\ df_empty(merge_df)
    /\ merge_call.col_names = <<"x", "y">>

\* C8: after an 'outer' merge that returned, every constant registered
\* before the merge is a column of the frame with the constant's value in
\* every row.
C8_OuterMergeKeepsConstants ==
    (merge_call.strategy = "outer" /\ ~merge_call.raised) =>
        \A i \in DOMAIN merge_call.before_constants :
           \A k \in {merge_call.before_constants[i].name} :
              /\ k \in Range(merge_df.cols)
              /\ \A r \in merge_df.rows :
                    merge_df.data[r][k] = merge_call.before_constants[i].value

\* an outer merge added a row, the merged object had a column named as the
\* constant, with another value
C8_Witness ==
    /\ merge_call.strategy = "outer"
    /\ ~merge_call.raised
    /\ Len(merge_call.before_constants) = 1
    /\ merge_call.before_constants[1].name = "k"
    /\ merge_df.rows # merge_call.before_df.rows
    /\ "k" \in Range(merge_call.obj.frame.cols)
    /\ \E r \in merge_call.obj.frame.rows :
          merge_call.obj.frame.data[r]["k"]
             # merge_call.before_constants[1].value


-----------------------------------------------------------------------------
(* Db2DataWriter                                                           *)
(*                                                                         *)
(* A writer w has data_item_metadata (item -> transient, table, type) and  *)
(* grains_metadata (item -> grain).  A table is a bag of rows; a row has   *)
(* the KEY, the dimension columns of the insert statement and the four     *)
(* value columns (LAST_UPDATE, the time of the insert, is left out).       *)
(* Timestamps are integers.                                                *)

KnownTypes == {"BOOLEAN", "NUMBER", "LITERAL", "TIMESTAMP"}

\* Db2DataWriter._get_active_cols_properties: (item, type, table) for the
\* columns that are data items, not transient, with a table and a type
get_active_cols_properties(w, df) ==
    LET md == w.data_item_metadata
        active(c) == /\ c \in DOMAIN md
                     /\ md[c].transient = Some(FALSE)
                     /\ md[c].table # None
                     /\ md[c].type # None
        items == SelectSeq(df.cols, active)
    IN [i \in DOMAIN items |->
          [item |-> items[i],
           type |-> IF Val(md[items[i]].type) \in KnownTypes
                    THEN Val(md[items[i]].type) ELSE "LITERAL",
           table |-> Val(md[items[i]].table)]]

\* the tables of col_props in the order of their first item
RECURSIVE tables_of(_)
tables_of(col_props) ==
    IF col_props = <<>> THEN <<>>
    ELSE CHOOSE out \in
           { IF Head(col_props).table \in Range(rest) THEN rest
             ELSE <<Head(col_props).table>> \o rest
             : rest \in {tables_of(
                          SelectSeq(Tail(col_props),
                                    LAMBDA x : x.table # Head(col_props).table))} }
           : TRUE

\* the first item of col_props written to table t
first_item(col_props, t) ==
    col_props[Min({i \in DOMAIN col_props : col_props[i].table = t})].item

\* self.grains_metadata.get(item_name)
grain_of(w, item) ==
    IF item \in DOMAIN w.grains_metadata
    THEN Some(w.grains_metadata[item]) ELSE None

\* Db2DataWriter.create_insert_statement: the dimension columns
insert_dimensions(grain) ==
    IF grain = None THEN <<"ENTITY_ID", "TIMESTAMP">>
    ELSE (IF Val(grain).entity_id THEN <<"ENTITY_ID">> ELSE <<>>) \o
         (IF Val(grain).freq THEN <<"TIMESTAMP">> ELSE <<>>) \o
         Val(grain).dimensions

\* levels of the index of a frame (an un-named index has one level)
nlevels(df) == IF df.idx = <<>> THEN 1 ELSE Len(df.idx)

\* Db2DataWriter._get_table_properties: index_positions (1-based), None
\* when the index is not a MultiIndex
index_positions(df, grain) ==
    IF nlevels(df) < 2 THEN None
    ELSE IF grain = None THEN Some(<<1, 2>>)
    ELSE Some(
         (IF Val(grain).entity_id THEN <<1>> ELSE <<>>) \o
         (IF Val(grain).freq
          THEN (IF Val(grain).entity_id THEN <<2>> ELSE <<1>>) ELSE <<>>) \o
         [i \in DOMAIN Val(grain).dimensions |->
             Pos(df.idx, Val(grain).dimensions[i])])

\* _get_table_properties: ', '.join([str(pos) for pos in index_positions])
\* iterates index_positions for every table; None is not iterable
index_positions_error(df, col_props) ==
    /\ Len(col_props) > 0
    /\ nlevels(df) < 2

\* map_index_name_pos[dimension] raises KeyError
dimension_key_error(df, grain) ==
    /\ nlevels(df) >= 2
    /\ grain # None
    /\ \E d \in Range(Val(grain).dimensions) : d \notin Range(df.idx)

\* Db2DataWriter.create_delete_statement executed with (start_ts, end_ts):
\* DELETE ... WHERE TIMESTAMP >= ? AND TIMESTAMP < ?
delete_rows(table, start_ts, end_ts) ==
    [r \in {x \in DOMAIN table : ~(/\ x.index["TIMESTAMP"] >= start_ts
                                   /\ x.index["TIMESTAMP"] < end_ts)}
       |-> table[r]]

\* str(derived_value)
str_of(v) == <<"str", v>>

\* a float that is not finite
Inf == 999

\* float(derived_value)
float_of(v) == <<"float", v>>

\* np.isfinite(myFloat)
isfinite(f) == f[2] # Inf

\* a row that puts the value of a NUMBER into VALUE_S
db_row_number_as_string(item, type, dims, pos, ix, v) ==
    [key |-> item,
     index |-> [d \in Range(dims) |-> ix[pos[Pos(dims, d)]]],
     value_b |-> IF type = "BOOLEAN" THEN Some(IF v # 0 THEN 1 ELSE 0)
                 ELSE None,
     value_n |-> None,
     value_s |-> IF type \in {"LITERAL", "NUMBER"} THEN Some(str_of(v))
                 ELSE None,
     value_t |-> IF type = "TIMESTAMP" THEN Some(v) ELSE None]

\* _persist_dataframe: the row for one value of a data item
db_row(item, type, dims, pos, ix, v) ==
    [key |-> item,
     index |-> [d \in Range(dims) |-> ix[pos[Pos(dims, d)]]],
     value_b |-> IF type = "BOOLEAN" THEN Some(IF v # 0 THEN 1 ELSE 0)
                 ELSE None,
     value_n |-> IF type = "NUMBER" /\ isfinite(float_of(v))
                 THEN Some(float_of(v)) ELSE None,
     value_s |-> IF type = "LITERAL" THEN Some(str_of(v)) ELSE None,
     value_t |-> IF type = "TIMESTAMP" THEN Some(v) ELSE None]

\* the values of the frame that are written: (row, item) with a value that
\* is not null
values_to_write(df, col_props) ==
    {<<r, i>> \in df.rows \X DOMAIN col_props :
        df.data[r][col_props[i].item] # Null}

\* _persist_dataframe: the rows collected for table t, one for each value
rows_for(w, df, col_props, t) ==
    LET grain == grain_of(w, first_item(col_props, t))
        dims == insert_dimensions(grain)
        pos == Val(index_positions(df, grain))
        cells == {y \in values_to_write(df, col_props) :
                     col_props[y[2]].table = t}
        row_of(x) == db_row(col_props[x[2]].item, col_props[x[2]].type, dims,
                            pos, x[1], df.data[x[1]][col_props[x[2]].item])
    IN [r \in {row_of(x) : x \in cells} |->
           Cardinality({x \in cells : row_of(x) = r})]

\* a call of the database driver for a table
DbCall(op, table) == [op |-> op, table |-> table]

\* no call of the driver fails
NoFailure == DbCall("none", "none")

\* the state of one run of execute: the tables, the driver calls issued,
\* self.insert_statements, the rows inserted and the table named by the
\* DataWriterException
WriterState(tables) ==
    [tables |-> tables, ops |-> <<>>, prepared |-> {},
     inserted |-> [t \in DOMAIN tables |-> EmptyBag], error |-> None]

\* the database rejects the delete statement of table t: the driver call
\* fails, a bound is missing, or the table has no TIMESTAMP column
delete_rejected(w, col_props, t, start_ts, end_ts, db_fail) ==
    \/ db_fail = DbCall("delete", t)
    \/ start_ts = None
    \/ end_ts = None
    \/ "TIMESTAMP" \notin
          Range(insert_dimensions(grain_of(w, first_item(col_props, t))))

\* _delete_and_prepare: the loop over table_props
RECURSIVE delete_and_prepare(_, _, _, _, _, _, _)
delete_and_prepare(w, col_props, ts, start_ts, end_ts, db_fail, s) ==
    IF ts = <<>> THEN s
    ELSE IF db_fail = DbCall("prepare_delete", Head(ts))
    THEN [s EXCEPT !.ops = @ \o <<DbCall("prepare_delete", Head(ts))>>,
                   !.error = Some(Head(ts))]
    ELSE IF delete_rejected(w, col_props, Head(ts), start_ts, end_ts, db_fail)
    THEN [s EXCEPT !.ops = @ \o <<DbCall("prepare_delete", Head(ts)),
                                  DbCall("delete", Head(ts))>>,
                   !.error = Some(Head(ts))]
    ELSE IF db_fail = DbCall("prepare_insert", Head(ts))
    THEN [s EXCEPT !.tables[Head(ts)] =
                       delete_rows(@, Val(start_ts), Val(end_ts)),
                   !.ops = @ \o <<DbCall("prepare_delete", Head(ts)),
                                  DbCall("delete", Head(ts)),
                                  DbCall("prepare_insert", Head(ts))>>,
                   !.error = Some(Head(ts))]
    ELSE delete_and_prepare(w, col_props, Tail(ts), start_ts, end_ts, db_fail,
            [s EXCEPT !.tables[Head(ts)] =
                          delete_rows(@, Val(start_ts), Val(end_ts)),
                      !.ops = @ \o <<DbCall("prepare_delete", Head(ts)),
                                     DbCall("delete", Head(ts)),
                                     DbCall("prepare_insert", Head(ts))>>,
                      !.prepared = @ \cup {Head(ts)}])

\* _persist_dataframe for a frame with a MultiIndex: the rows of each table
\* are written with one call of _persist_tuples
RECURSIVE persist_dataframe(_, _, _, _, _, _)
persist_dataframe(w, df, col_props, ts, db_fail, s) ==
    IF ts = <<>> THEN s
    ELSE CHOOSE out \in
           { IF rows = EmptyBag
             THEN persist_dataframe(w, df, col_props, Tail(ts), db_fail, s)
             ELSE IF db_fail = DbCall("insert", Head(ts))
             THEN [s EXCEPT !.ops = Append(@, DbCall("insert", Head(ts))),
                            !.error = Some(Head(ts))]
             ELSE persist_dataframe(w, df, col_props, Tail(ts), db_fail,
                     [s EXCEPT !.tables[Head(ts)] = @ (+) rows,
                               !.inserted[Head(ts)] = @ (+) rows,
                               !.ops = Append(@, DbCall("insert", Head(ts)))])
             : rows \in {rows_for(w, df, col_props, Head(ts))} }
           : TRUE

\* a finally clause that releases the statements of a successful run only
free_insert_statements_on_success(prepared, outcome) ==
    IF outcome = "ok" THEN prepared ELSE {}

\* execute: finally, ibm_db.free_result for every insert statement
free_insert_statements(prepared, outcome) == prepared

\* the outcome of execute: how it ended, the state it left and the insert
\* statements it released
WriterResult(outcome, s) ==
    [outcome |-> outcome, tables |-> s.tables, ops |-> s.ops,
     prepared |-> s.prepared, inserted |-> s.inserted, error |-> s.error,
     released |-> free_insert_statements(s.prepared, outcome)]

\* Db2DataWriter.execute once col_props and the tables are known.  db_fail
\* is the driver call that fails.
delete_and_persist(w, tables, df, start_ts, end_ts, db_fail, col_props, ts) ==
    IF \E t \in Range(ts) :
          dimension_key_error(df, grain_of(w, first_item(col_props, t)))
    THEN WriterResult("KeyError", WriterState(tables))
    ELSE IF index_positions_error(df, col_props)
    THEN WriterResult("TypeError", WriterState(tables))
    ELSE CHOOSE out \in
           { IF s1.error # None
             THEN WriterResult("DataWriterException", s1)
             ELSE IF Len(col_props) = 0
             THEN WriterResult("ok", s1)
             ELSE IF values_to_write(df, col_props) = {}
             THEN WriterResult("ok", s1)
             ELSE CHOOSE res \in
                    { IF s2.error # None
                      THEN WriterResult("DataWriterException", s2)
                      ELSE WriterResult("ok", s2)
                      : s2 \in {persist_dataframe(w, df, col_props, ts,
                                                  db_fail, s1)} }
                    : TRUE
             : s1 \in {delete_and_prepare(w, col_props, ts, start_ts, end_ts,
                                          db_fail, WriterState(tables))} }
           : TRUE

\* Db2DataWriter.execute(df, start_ts, end_ts)
writer_execute(w, tables, df, start_ts, end_ts, db_fail) ==
    IF df = None
    THEN WriterResult("DataWriterException", WriterState(tables))
    ELSE CHOOSE out \in
           { delete_and_persist(w, tables, Val(df), start_ts, end_ts, db_fail,
                                col_props, tables_of(col_props))
             : col_props \in {get_active_cols_properties(w, Val(df))} }
           : TRUE

MaxWrites == 2

ItemMeta(transient, table, type) ==
    [transient |-> transient, table |-> table, type |-> type]

Grain(entity_id, freq, dimensions) ==
    [entity_id |-> entity_id, freq |-> freq, dimensions |-> dimensions]

\* data items m, n, b and w of the input level, g of a granularity with a
\* dimension, h of a granularity without a time frequency, t transient, v
\* without a transient flag, u without a table, x without a type
WriterItems ==
    ("m" :> ItemMeta(Some(FALSE), Some("T1"), Some("NUMBER"))) @@
    ("n" :> ItemMeta(Some(FALSE), Some("T1"), Some("LITERAL"))) @@
    ("b" :> ItemMeta(Some(FALSE), Some("T1"), Some("BOOLEAN"))) @@
    ("w" :> ItemMeta(Some(FALSE), Some("T1"), Some("TIMESTAMP"))) @@
    ("g" :> ItemMeta(Some(FALSE), Some("T2"), Some("BOOLEAN"))) @@
    ("h" :> ItemMeta(Some(FALSE), Some("T3"), Some("CUSTOM"))) @@
    ("t" :> ItemMeta(Some(TRUE), Some("T1"), Some("NUMBER"))) @@
    ("v" :> ItemMeta(None, Some("T1"), Some("NUMBER"))) @@
    ("u" :> ItemMeta(Some(FALSE), None, Some("NUMBER"))) @@
    ("x" :> ItemMeta(Some(FALSE), Some("T1"), None))

WriterGrains ==
    ("g" :> Grain(TRUE, TRUE, <<"site">>)) @@
    ("h" :> Grain(TRUE, FALSE, <<"site">>))

Writers ==
    { [data_item_metadata |-> WriterItems, grains_metadata |-> WriterGrains] }

\* a frame with the given index names, rows and columns where the cell of
\* row r and column c is v, except in the rows of nulls
WriterFrame(idx, rows, cols, v, nulls) ==
    [idx |-> idx, rows |-> rows, cols |-> cols,
     data |-> [r \in rows |->
                 [c \in Range(cols) |-> IF r \in nulls THEN Null ELSE v]]]

\* a frame whose column c holds vals[c] in every row
WriterFrameOf(idx, rows, cols, vals) ==
    [idx |-> idx, rows |-> rows, cols |-> cols,
     data |-> [r \in rows |-> [c \in Range(cols) |-> vals[c]]]]

WindowStart == 10

WindowEnd == 20

WriterFrames ==
    { None,
      Some(WriterFrame(<<"id", "ts">>,
                       {<<1, WindowStart>>, <<1, WindowEnd - 1>>},
                       <<"m", "n", "t", "q", "v", "x">>, 3, {})),
      Some(WriterFrame(<<"id", "ts">>,
                       {<<1, WindowStart + 1>>, <<1, WindowEnd>>},
                       <<"m">>, 3, {})),
      Some(WriterFrame(<<"id", "ts">>,
                       {<<1, WindowStart + 1>>, <<2, WindowStart + 2>>},
                       <<"n", "u">>, 3, {<<2, WindowStart + 2>>})),
      Some(WriterFrame(<<"id", "ts">>, {}, <<"m">>, 3, {})),
      Some(WriterFrame(<<"ts">>, {<<WindowStart + 1>>}, <<"m">>, 3, {})),
      Some(WriterFrame(<<"id", "ts", "site">>,
                       {<<1, WindowStart + 1, 7>>, <<1, WindowStart + 1, 8>>},
                       <<"g", "m">>, 1, {})),
      Some(WriterFrame(<<"id", "ts">>, {<<1, WindowStart + 1>>},
                       <<"g">>, 1, {})),
      Some(WriterFrame(<<"id", "site">>, {<<1, 7>>}, <<"m", "h">>, 2, {})),
      Some(WriterFrameOf(<<"id", "ts">>,
                         {<<1, WindowStart + 1>>, <<2, WindowStart + 1>>},
                         <<"m", "n", "b", "w">>,
                         ("m" :> Inf) @@ ("n" :> 0) @@ ("b" :> 0) @@
                         ("w" :> WindowStart))),
      Some(WriterFrameOf(<<"id", "ts">>, {<<1, WindowStart + 1>>},
                         <<"m", "b", "w", "h">>,
                         ("m" :> 0) @@ ("b" :> 2) @@ ("w" :> Null) @@
                         ("h" :> 5))) }

WriterWindows ==
    { <<Some(WindowStart), Some(WindowEnd)>>,
      <<Some(WindowStart), Some(WindowEnd + 1)>>,
      <<None, Some(WindowEnd)>> }

\* the driver calls that can fail
DbFailures ==
    {NoFailure} \cup
    { DbCall(op, t) : op \in {"prepare_delete", "delete", "prepare_insert",
                              "insert"},
                      t \in {"T1", "T2", "T3"} }

TableRow(key, entity, timestamp, n) ==
    [key |-> key,
     index |-> ("ENTITY_ID" :> entity) @@ ("TIMESTAMP" :> timestamp),
     value_b |-> None, value_n |-> Some(float_of(n)), value_s |-> None,
     value_t |-> None]

\* the tables before the writer runs
InitialTables ==
    { ("T1" :> EmptyBag) @@ ("T2" :> EmptyBag) @@ ("T3" :> EmptyBag),
      ("T1" :> SetToBag({TableRow("m", 1, WindowStart + 1, 9),
                         TableRow("m", 1, WindowEnd + 5, 9),
                         TableRow("z", 1, WindowStart + 2, 9)})) @@
      ("T2" :> EmptyBag) @@ ("T3" :> EmptyBag) }

WriterInit ==
    /\ StageIdle
    /\ BatchIdle
    /\ AggIdle
    /\ RoundIdle
    /\ SchedIdle
    /\ ChunkIdle
    /\ BuildIdle
    /\ ExecIdle
    /\ MergeIdle
    /\ db_tables \in InitialTables
    /\ \E w \in Writers, df \in WriterFrames, win \in WriterWindows :
          writer_args = [writer |-> w, df |-> df, start_ts |-> win[1],
                         end_ts |-> win[2]]
    /\ writer_pc = "ready"
    /\ writer_hist = <<>>

\* Db2DataWriter.execute(df, start_ts, end_ts), called again with the same
\* arguments
WriterExecute ==
    /\ UNCHANGED stage_vars
    /\ UNCHANGED batch_vars
    /\ UNCHANGED agg_vars
    /\ UNCHANGED round_vars
    /\ writer_pc = "ready"
    /\ Len(writer_hist) < MaxWrites
    /\ \E db_fail \in DbFailures :
       \E r \in {writer_execute(writer_args.writer, db_tables, writer_args.df,
                                writer_args.start_ts, writer_args.end_ts,
                                db_fail)} :
          /\ db_tables' = r.tables
          /\ writer_hist' = Append(writer_hist,
                                   [call |-> r, db_fail |-> db_fail,
                                    before |-> db_tables])
    /\ UNCHANGED <<writer_args, writer_pc>>
    /\ UNCHANGED <<sched_vars, chunk_vars, build_vars, exec_vars, merge_vars>>

WriterNext == WriterExecute

SpecWriter == WriterInit /\ [][WriterNext]_vars

-----------------------------------------------------------------------------
(* Claims about Db2DataWriter *)

\* C4: two consecutive runs of execute with the same frame and the same
\* window that both return leave every table after the second run as it
\* was after the first (the second run adds no row).
C4_WriterIdempotence ==
    \A i \in 2..Len(writer_hist) :
       (/\ writer_hist[i - 1].call.outcome = "ok"
        /\ writer_hist[i].call.outcome = "ok")
          => writer_hist[i].call.tables = writer_hist[i - 1].call.tables


-----------------------------------------------------------------------------
(* adjust_to_schedule applied repeatedly to its own result                 *)

MaxRounds == 2

\* a few days around the current day, at instants on and off the minute
RoundDates ==
    { TAdd(TAdd(Days(d), Hours(h)), TAdd(Minutes(m), Micros(u)))
      : d \in {0, 1, 2}, h \in {0, 8, 9, 23}, m \in {0, 29, 30, 31},
        u \in {0, 1, 10} }

RoundInputs ==
    [date : RoundDates,
     start_hours : {None, Some(9)},
     start_min : {None, Some(30)},
     interval : {"5min", "1h", "7h"},
     today : {Days(1), Days(2)}]

RoundInit ==
    /\ StageIdle
    /\ BatchIdle
    /\ AggIdle
    /\ SchedIdle
    /\ ChunkIdle
    /\ BuildIdle
    /\ ExecIdle
    /\ MergeIdle
    /\ WriterIdle
    /\ round_in \in RoundInputs
    /\ round_out = <<>>

\* adjusted = adjust_to_schedule(execute_date, start_hours, start_min,
\* interval), called on the date first and then on its own result
RoundApply ==
    /\ UNCHANGED stage_vars
    /\ UNCHANGED batch_vars
    /\ UNCHANGED agg_vars
    /\ round_in # <<>>
    /\ Len(round_out) < MaxRounds
    /\ round_out' =
          Append(round_out,
                 adjust_to_schedule(
                    IF round_out = <<>> THEN round_in.date
                    ELSE round_out[Len(round_out)],
                    round_in.start_hours, round_in.start_min,
                    round_in.interval, round_in.today))
    /\ UNCHANGED round_in
    /\ UNCHANGED <<sched_vars, chunk_vars, build_vars, exec_vars, merge_vars,
                   writer_vars>>

RoundNext == RoundApply

SpecRound == RoundInit /\ [][RoundNext]_vars

\* C11: adjust_to_schedule applied to its own result, for the same schedule
\* and the same current day, returns that result.
C11_RoundingIdempotence ==
    \A i \in 2..Len(round_out) : round_out[i] = round_out[i - 1]

\* a date off the schedule was moved back and adjusted a second time
C11_Witness ==
    /\ Len(round_out) >= 2
    /\ round_out[1] # round_in.date
    /\ round_in.start_hours # None

-----------------------------------------------------------------------------
\* the loop over the chunks is at the point where it starts a chunk that is
\* not the first of its schedule
StartsFurtherChunk ==
    /\ exec_pc = "chunk"
    /\ cidx >= 2
    /\ cidx <= Len(chunks)

\* C12: once a chunk has finished after execute_until, no further chunk of
\* that schedule is started.
C12_KeepAliveStopsChunks ==
    StartsFurtherChunk => TLe(now, execute_until)

-----------------------------------------------------------------------------
\* C13: a stage that returns False halts the run of its chunk: no later
\* stage of the chunk is executed after it.
C13_FalseHaltsChunk ==
    false_returned # "followed"

-----------------------------------------------------------------------------
\* the stages of the input level that were invoked for the current chunk
InputLevelTrace == SelectSeq(trace, LAMBDA e : e.phase = 1)

\* the chunk that has just been left was halted at the input level
ChunkHalted ==
    /\ exec_pc = "chunk"
    /\ [sidx |-> sidx, cidx |-> cidx - 1, result |-> "halted"] \in history

\* C14: a stage with _allow_empty_df = False is never invoked on an empty
\* frame; when the input level stops at such a stage, no later stage of the
\* input level and no granularity stage of that chunk is invoked, and the
\* granularity stages run only after the whole input level has run.
C14_EmptyFrameGuard ==
    /\ \A i \in DOMAIN trace :
          ~allow_empty_df(payload_stages, trace[i]) => trace[i].df_in = "data"
    /\ ChunkHalted =>
          /\ InputLevelTrace = trace
          /\ Len(trace) < Len(job_spec[1].stages)
          /\ ~allow_empty_df(payload_stages,
                             job_spec[1].stages[Len(trace) + 1])
    /\ (exec_pc = "stages" /\ phase_idx > 1) =>
          Len(InputLevelTrace) = Len(job_spec[1].stages)

\* the input level stopped at T1, after the data source delivered nothing,
\* and the loop went on to a further chunk
C14_Witness ==
    /\ ChunkHalted
    /\ Len(trace) >= 1
    /\ job_spec[1].stages[Len(trace) + 1].name = "T1"
    /\ cidx <= Len(chunks)

-----------------------------------------------------------------------------
\* the rule list of the merge strategy selection, first match wins
FirstMatchingRule(frame, obj, col_names, force_overwrite) ==
    IF obj.rows = {} \/ obj.cols = <<>> THEN "skip"
    ELSE IF frame.rows = {} \/ frame.cols = <<>> THEN "replace"
    ELSE IF /\ obj.rows = frame.rows
            /\ Range(col_names) \subseteq Range(frame.cols)
            /\ ~force_overwrite
    THEN "skip"
    ELSE IF obj.rows = frame.rows THEN "slice"
    ELSE IF obj.idx = frame.idx THEN "outer"
    ELSE IF /\ Len(obj.idx) = 1
            /\ obj.idx[1] \in Range(frame.idx) \cup Range(frame.cols)
    THEN "lookup"
    ELSE "error"

\* the last call of execute merged a frame or a series
MergedFrame ==
    /\ merge_call # NoCall
    /\ merge_call.obj.kind \in {"frame", "series"}

\* C15: merge_dataframe carries out the strategy of the first matching rule
\* of (obj empty: skip; frame empty: replace; same index, columns present,
\* no force_overwrite: skip; same index: slice; same index names: outer;
\* single index name known to the frame: lookup), and raises when no rule
\* matches.
C15_FirstMatchingStrategy ==
    MergedFrame =>
       \E rule \in {FirstMatchingRule(merge_call.before_df,
                                      merge_call.obj.frame,
                                      merge_call.col_names,
                                      merge_call.force_overwrite)} :
          IF rule = "error" THEN merge_call.raised
          ELSE merge_call.strategy = rule

\* an object with a single index name that is an index name or a column
\* of the frame was merged by lookup
C15_Witness ==
    /\ MergedFrame
    /\ merge_call.strategy = "lookup"
    /\ ~merge_call.raised
    /\ merge_df # merge_call.before_df

-----------------------------------------------------------------------------
\* the value columns of a row that are not null
NonNullValues(row) ==
    {k \in {"value_b", "value_n", "value_s", "value_t"} : row[k] # None}

\* the row holds the value v of an item of the given type as the writer
\* typing prescribes
TypedAs(row, type, v) ==
    IF type = "BOOLEAN"
    THEN NonNullValues(row) = {"value_b"} /\ Val(row.value_b) \in {0, 1}
                                          /\ (Val(row.value_b) = 1 <=> v # 0)
    ELSE IF type = "NUMBER"
    THEN IF v = Inf THEN NonNullValues(row) = {}
         ELSE NonNullValues(row) = {"value_n"}
              /\ row.value_n = Some(float_of(v))
    ELSE IF type = "LITERAL"
    THEN NonNullValues(row) = {"value_s"} /\ row.value_s = Some(str_of(v))
    ELSE NonNullValues(row) = {"value_t"} /\ row.value_t = Some(v)

\* the rows with key item among the rows inserted into a table
InsertedFor(inserted, item) ==
    {row \in BagToSet(inserted) : row.key = item}

\* the number of rows with key item inserted into a table
InsertedCount(inserted, item) ==
    BagCardinality([row \in InsertedFor(inserted, item) |-> inserted[row]])

\* the calls of execute that returned
WritesDone ==
    {i \in DOMAIN writer_hist : writer_hist[i].call.outcome = "ok"}

\* C16: a run of execute that returns has inserted, for every active column,
\* as many rows with KEY = item as the column has non-null cells, into the
\* table of the item and into no other; each of these rows holds the value
\* of a cell in the one VALUE column of the item's type (BOOLEAN as 0 or 1,
\* NUMBER as float, LITERAL as string, TIMESTAMP as it is), and a NUMBER
\* that is not finite is written with VALUE_N null.
C16_WriterTyping ==
    \A i \in WritesDone :
       \E df \in {Val(writer_args.df)} :
       \E col_props \in {get_active_cols_properties(writer_args.writer, df)} :
          /\ \A k \in DOMAIN col_props, t \in DOMAIN db_tables :
                InsertedCount(writer_hist[i].call.inserted[t],
                              col_props[k].item) =
                   IF t = col_props[k].table
                   THEN Cardinality({r \in df.rows :
                                       df.data[r][col_props[k].item] # Null})
                   ELSE 0
          /\ \A k \in DOMAIN col_props :
                \A row \in InsertedFor(
                              writer_hist[i].call.inserted[col_props[k].table],
                              col_props[k].item) :
                   \E r \in df.rows :
                      /\ df.data[r][col_props[k].item] # Null
                      /\ TypedAs(row, col_props[k].type,
                                 df.data[r][col_props[k].item])
          /\ \A t \in DOMAIN db_tables :
                \A row \in BagToSet(writer_hist[i].call.inserted[t]) :
                   \E k \in DOMAIN col_props : col_props[k].item = row.key

\* a frame with a BOOLEAN, a LITERAL, a TIMESTAMP and a non-finite NUMBER
\* column was written
C16_Witness ==
    \E i \in WritesDone :
       \E ins \in {BagToSet(writer_hist[i].call.inserted["T1"])} :
          /\ \E row \in ins : row.key = "m" /\ NonNullValues(row) = {}
          /\ \E row \in ins : row.key = "b" /\ row.value_b = Some(0)
          /\ \E row \in ins : row.key = "n" /\ row.value_s # None
          /\ \E row \in ins : row.key = "w" /\ row.value_t # None

-----------------------------------------------------------------------------
\* the columns of the frame for which the last run inserted rows
WrittenColumns(i) ==
    {c \in Range(Val(writer_args.df).cols) :
        \E t \in DOMAIN db_tables :
           InsertedFor(writer_hist[i].call.inserted[t], c) # {}}

\* the columns with data-item metadata whose transient flag is not true
\* and whose sourceTableName and columnType are present
ColumnsToWrite ==
    {c \in Range(Val(writer_args.df).cols) \cap
           DOMAIN writer_args.writer.data_item_metadata :
        /\ writer_args.writer.data_item_metadata[c].transient # Some(TRUE)
        /\ writer_args.writer.data_item_metadata[c].table # None
        /\ writer_args.writer.data_item_metadata[c].type # None}

\* C17: a column (with a value in the frame) is written if and only if it
\* has data-item metadata, its transient flag is not true, and both its
\* table name and its type are present.
C17_WriterColumnSelection ==
    \A i \in WritesDone :
       WrittenColumns(i) =
          {c \in ColumnsToWrite :
              \E r \in Val(writer_args.df).rows :
                 Val(writer_args.df).data[r][c] # Null}

-----------------------------------------------------------------------------
\* the driver call chosen to fail was issued in run i
FailureHit(i) ==
    \E k \in DOMAIN writer_hist[i].call.ops :
       writer_hist[i].call.ops[k] = writer_hist[i].db_fail

\* C18: when a driver call fails, execute raises DataWriterException naming
\* the table of that call, the failing call is the last call issued to the
\* database, and on every exit of execute the insert statements that were
\* prepared have all been released.
C18_WriterFailureHandling ==
    \A i \in DOMAIN writer_hist :
       \E r \in {writer_hist[i].call} :
          /\ FailureHit(i) =>
                /\ r.outcome = "DataWriterException"
                /\ r.error = Some(writer_hist[i].db_fail.table)
                /\ r.ops[Len(r.ops)] = writer_hist[i].db_fail
                /\ \A k \in 1..(Len(r.ops) - 1) :
                      r.ops[k] # writer_hist[i].db_fail
          /\ (r.outcome = "DataWriterException" /\ r.ops # <<>>) =>
                r.error = Some(r.ops[Len(r.ops)].table)
          /\ r.outcome # "DataWriterException" => r.error = None
          /\ r.released = r.prepared
          /\ \A t \in DOMAIN r.tables :
                (\A k \in DOMAIN r.ops : r.ops[k].table # t) =>
                   r.tables[t] = writer_hist[i].before[t]

\* the insert into the second table failed after the rows of the first
\* table had been written; both insert statements were released
C18_Witness ==
    \E i \in DOMAIN writer_hist :
       /\ FailureHit(i)
       /\ writer_hist[i].db_fail.op = "insert"
       /\ Cardinality(writer_hist[i].call.prepared) = 2
       /\ \E t \in DOMAIN db_tables :
             writer_hist[i].call.inserted[t] # EmptyBag

-----------------------------------------------------------------------------
\* a pass of the loop that executed no schedule and found an execution
\* pending before execute_until
IdleTickPending ==
    /\ sidx > Len(schedules)
    /\ ~is_executed
    /\ future_executions # {}

\* C19: a pass that executed nothing while an execution is pending before
\* execute_until waits for it and goes on with another pass: execute does
\* not end there with an exception.
C19_IdleTickWaits ==
    IdleTickPending => exec_pc # "raised"

-----------------------------------------------------------------------------
\* the schedules whose round hour or round minute is set
RoundedSchedules ==
    {i \in DOMAIN schedules :
        schedules[i].round_hour # None \/ schedules[i].round_min # None}

\* the next execution date of schedule i before rounding
UnroundedNextDate(i) ==
    get_next_execution_date(job_log, schedules[i].freq, execute_date)

\* the anchor of schedule i: the round hour and minute of the current day,
\* moved back one day when that is after the date to round
Anchor(i) ==
    LET h == IF schedules[i].round_hour = None THEN 0
             ELSE Val(schedules[i].round_hour)
        m == IF schedules[i].round_min = None THEN 0
             ELSE Val(schedules[i].round_min)
        A == TAdd(DayOf(execute_date), TAdd(Hours(h), Minutes(m)))
    IN IF TLt(UnroundedNextDate(i), A) THEN TSub(A, Days(1)) ELSE A

\* next_date of schedule i differs from the anchor by a whole multiple of
\* the frequency
OnGrid(i) ==
    \E d \in {TSub(schedule_metadata[i].next_date, Anchor(i))} :
       d = TMul(TFloorDiv(d, to_timedelta(schedules[i].freq)),
                to_timedelta(schedules[i].freq))

\* C20 as stated: after evaluate_schedules the next_date of every schedule
\* with a round hour or minute does not exceed T and lies on the grid.
C20_RoundedNotAfterT ==
    sched_pc = "evaluated" =>
       \A i \in RoundedSchedules :
          /\ TLe(schedule_metadata[i].next_date, execute_date)
          /\ OnGrid(i)

\* C20 amended: after evaluate_schedules the next_date of every schedule
\* with a round hour or minute lies on the grid and is the last grid point
\* that does not exceed the next execution date before rounding; it does
\* not exceed T when that date does not.
C20_RoundedOnGrid ==
    sched_pc = "evaluated" =>
       \A i \in RoundedSchedules :
          /\ OnGrid(i)
          /\ TLe(schedule_metadata[i].next_date, UnroundedNextDate(i))
          /\ TLt(TSub(UnroundedNextDate(i), schedule_metadata[i].next_date),
                 to_timedelta(schedules[i].freq))
          /\ TLe(UnroundedNextDate(i), execute_date) =>
                TLe(schedule_metadata[i].next_date, execute_date)

\* rounding moved the next_date of a schedule that is not yet due to a grid
\* point after T, and that of a due schedule to a grid point before T
C20_Witness ==
    /\ sched_pc = "evaluated"
    /\ \E i \in RoundedSchedules :
          /\ schedule_metadata[i].next_date # UnroundedNextDate(i)
          /\ TLt(execute_date, schedule_metadata[i].next_date)
    /\ \E i \in RoundedSchedules :
          /\ schedule_metadata[i].next_date # UnroundedNextDate(i)
          /\ TLt(schedule_metadata[i].next_date, execute_date)

-----------------------------------------------------------------------------
\* the last execution of the schedule of frequency f, None when it never ran
LastExec(f) == get_last_execution_date(job_log, JobName, f)

\* the position of the schedule of frequency f in the list of schedules
ScheduleAt(f) == CHOOSE i \in DOMAIN schedules : schedules[i].freq = f

\* scenario S1: progressive schedules 5min (no backtrack) and 1h (backtrack
\* one day), last executed at 09:55 and 09:00, evaluated at T = 10:05
ScenarioS1 ==
    /\ sched_pc = "evaluated"
    /\ is_schedule_progressive
    /\ schedules =
          << Schedule("5min", None, None, BtNone),
             Schedule("1h", None, None, BtDuration(Days(1))) >>
    /\ LastExec("5min") = Some(TAdd(Days(1), TAdd(Hours(9), Minutes(55))))
    /\ LastExec("1h") = Some(TAdd(Days(1), Hours(9)))
    /\ execute_date = TAdd(Days(1), TAdd(Hours(10), Minutes(5)))

\* what S1 expects of the two schedules apart from the start date
S1Subsumption ==
    /\ schedule_metadata[ScheduleAt("1h")].is_due
    /\ schedule_metadata[ScheduleAt("1h")].mark_complete = <<"5min", "1h">>
    /\ ~schedule_metadata[ScheduleAt("5min")].is_due
    /\ schedule_metadata[ScheduleAt("5min")].is_subsumed

\* C21 as stated: in scenario S1 the 1h schedule is due with mark_complete
\* [5min, 1h] and start_date 09:05, and the 5min schedule is subsumed.
C21_ScenarioS1Start0905 ==
    ScenarioS1 =>
       /\ S1Subsumption
       /\ schedule_metadata[ScheduleAt("1h")].start_date =
             Some(TAdd(Days(1), TAdd(Hours(9), Minutes(5))))

\* C21 amended: in scenario S1 the 1h schedule is due with mark_complete
\* [5min, 1h] and start_date T minus the backtrack of one day, 10:05 of the
\* day before, and the 5min schedule is subsumed.
C21_ScenarioS1 ==
    ScenarioS1 =>
       /\ S1Subsumption
       /\ schedule_metadata[ScheduleAt("1h")].start_date =
             Some(TAdd(Hours(10), Minutes(5)))

\* the schedules of S1 were evaluated at 10:05 with both schedules due
C21_Witness ==
    /\ ScenarioS1
    /\ schedule_metadata[ScheduleAt("1h")].next_date =
          TAdd(Days(1), Hours(10))
    /\ schedule_metadata[ScheduleAt("5min")].next_date =
          TAdd(Days(1), Hours(10))

-----------------------------------------------------------------------------
\* scenario S6: no start date, early timestamp 2024-01-01 (day 1), chunks of
\* 7 days, no rounding, end date 2024-01-20 (day 20); get_chunks returned
ScenarioS6 ==
    /\ chunk_pc = "done"
    /\ chunk_in.start_date = None
    /\ chunk_in.early_timestamp = Some(Days(1))
    /\ chunk_in.chunk_size = Days(7)
    /\ chunk_in.round_hour = None
    /\ chunk_in.round_min = None
    /\ chunk_in.adjust.kind = "none"
    /\ chunk_in.end_date = Days(20)

\* every chunk after the first starts one microsecond after the end of the
\* chunk before it
StartsAfterPreviousEnd ==
    \A k \in 2..Len(chunks) :
       chunks[k].start = Some(TAdd(chunks[k - 1].end, OneUs))

\* C22 as stated: in scenario S6 get_chunks returns 3 chunks ending at
\* 01-08, 01-15 and 01-20, each chunk after the first starting one
\* microsecond after the end of the chunk before it.
C22_ScenarioS6WholeDays ==
    ScenarioS6 =>
       /\ Len(chunks) = 3
       /\ chunks[1].end = Days(8)
       /\ chunks[2].end = Days(15)
       /\ chunks[3].end = Days(20)
       /\ StartsAfterPreviousEnd

\* C22 amended: in scenario S6 get_chunks returns 3 chunks, the first from
\* 01-01 to 01-08, the second ending at 01-15 plus one microsecond (seven
\* days after its start) and the third at 01-20, each chunk after the first
\* starting one microsecond after the end of the chunk before it.
C22_ScenarioS6 ==
    ScenarioS6 =>
       /\ Len(chunks) = 3
       /\ chunks[1] = [start |-> Some(Days(1)), end |-> Days(8)]
       /\ chunks[2].end = TAdd(Days(15), OneUs)
       /\ chunks[3].end = Days(20)
       /\ StartsAfterPreviousEnd

\* get_chunks returned the chunks of scenario S6
C22_Witness ==
    /\ ScenarioS6
    /\ Len(chunks) = 3
    /\ chunks[3].start = Some(TAdd(Days(15), Micros(2)))

-----------------------------------------------------------------------------
\* the last call of execute merged a frame or series by lookup and returned
LookupMerged ==
    /\ MergedFrame
    /\ merge_call.strategy = "lookup"
    /\ ~merge_call.raised

\* the columns of the merged object as they are named for the merge
ObjectColumns ==
    IF merge_call.obj.kind = "series" THEN {merge_call.col_names[1]}
    ELSE IF Len(merge_call.col_names) = Len(merge_call.obj.frame.cols)
    THEN Range(merge_call.col_names)
    ELSE Range(merge_call.obj.frame.cols)

\* the value of the lookup key in row r of the frame before the merge
LookupKey(r) ==
    key_value(merge_call.before_df, r, merge_call.obj.frame.idx[1])

\* C23: after a lookup merge the frame has the index names it had, every
\* column it had, the columns of the object, and exactly the rows it had;
\* a column that is new holds null in the rows whose key the object does
\* not have.
C23_LookupMerge ==
    LookupMerged =>
       /\ merge_call.obj.frame.idx[1] \in get_cols(merge_call.before_df)
       /\ merge_df.idx = merge_call.before_df.idx
       /\ Range(merge_call.before_df.cols) \subseteq Range(merge_df.cols)
       /\ ObjectColumns \subseteq Range(merge_df.cols)
       /\ merge_df.rows = merge_call.before_df.rows
       /\ \A r \in merge_df.rows :
          \A c \in ObjectColumns \ Range(merge_call.before_df.cols) :
             <<LookupKey(r)>> \notin merge_call.obj.frame.rows
                => merge_df.data[r][c] = Null

\* a lookup on an index part found a match for some rows and none for others
C23_Witness ==
    /\ LookupMerged
    /\ merge_call.obj.frame.idx = <<"id">>
    /\ "c" \in Range(merge_df.cols) \ Range(merge_call.before_df.cols)
    /\ \E r \in merge_df.rows : merge_df.data[r]["c"] = Null
    /\ \E r \in merge_df.rows : merge_df.data[r]["c"] # Null

-----------------------------------------------------------------------------
(* Claims about successive builds of the job spec *)

\* the job spec the last call of build_job_spec would have produced from
\* the stages as they were declared, before any build touched them
FreshBuild ==
    build_job_spec(payload_stages, PayloadAttrs, build_info.schedule,
                   build_info.subsumed, build_info.order,
                   payload_stages.default_freq,
                   [n \in {d \in DOMAIN PayloadDefs :
                             PayloadDefs[d].is_data_source}
                      |-> PayloadAttrs[n].output_list])

\* the data sources of the payload
DataSources == {n \in DOMAIN PayloadDefs : PayloadDefs[n].is_data_source}

\* C24: every job spec is built fresh from the stage metadata: the stages
\* selected by a call of build_job_spec and the projection list it gives to
\* each data source of the job spec are those that the call's schedule and
\* subsumed schedules and the stages' declared inputs and outputs determine,
\* whatever the earlier calls on the same controller were; a column that an
\* earlier build trimmed from a data source is delivered by that source in a
\* later build that requires it.
C24_BuildFromMetadata ==
    (builds > 0) =>
       \A fresh \in {FreshBuild} :
          /\ job_spec = fresh.job_spec
          /\ \A d \in DataSources :
                (\E x \in SpecStages : x.kind = "stage" /\ x.name = d)
                   => ProjectionOf(d) =
                        (IF fresh.st[d].projection_list = None
                         THEN Range(fresh.st[d].output_list)
                         ELSE Range(Val(fresh.st[d].projection_list)))

-----------------------------------------------------------------------------
(* Claims about the life of the merge state *)

\* the input level stages of a chunk are about to start
ChunkStarts ==
    /\ exec_pc = "stages"
    /\ phase_idx = 1
    /\ stage_idx = 1

\* C25: the merge state lives exactly one chunk: the DataMerge of every
\* chunk starts with an empty frame and with no other constants than those
\* of the preload stages, so that a constant registered while an earlier
\* chunk, schedule or tick was processed (a scalar stage result merged into
\* an empty frame) is not among them.
C25_MergeStatePerChunk ==
    ChunkStarts =>
       /\ df_state.merge_df = "empty"
       /\ constants_of(job_constants) = job_constants.at_start
       /\ job_constants.at_start
             \subseteq preload_cols(payload_stages, stage_state)

-----------------------------------------------------------------------------
(* Claims about the order and the selection of the stages of a job spec *)

\* the columns a stage of the job spec delivers
Produces(x) ==
    IF x.kind = "stage" THEN Range(stage_state[x.name].output_list)
    ELSE Range(x.output_items)

\* the columns produced before position i of phase k: by the stages placed
\* earlier in the phase and, for a granularity, by the input level
ProducedBefore(k, i) ==
    UNION ({Produces(job_spec[k].stages[j]) : j \in 1..(i - 1)}
           \cup (IF k > 1
                 THEN {Produces(x) : x \in Range(job_spec[1].stages)}
                 ELSE {}))

\* the schedules of the last build
BuildSchedulesOf == {build_info.schedule} \cup Range(build_info.subsumed)

\* C26: in every phase of a built job spec each get_data or transform stage
\* appears at most once, its schedule is the schedule of the build or one
\* of the subsumed schedules, and every column of its input set is produced
\* by a stage placed earlier in the same phase or in the input level phase.
C26_DependencyOrder ==
    (builds > 0) =>
       \A k \in DOMAIN job_spec : \A i \in DOMAIN job_spec[k].stages :
          \A x \in {job_spec[k].stages[i]} :
             (x.kind = "stage") =>
                /\ \A j \in DOMAIN job_spec[k].stages :
                      job_spec[k].stages[j] = x => j = i
                /\ Val(stage_state[x.name].schedule) \in BuildSchedulesOf
                /\ x.input_items \subseteq ProducedBefore(k, i)

\* the stages of a call's type and granularity that are on a schedule of
\* the build and whose inputs are all among the columns available when the
\* call returned
EligibleStages(c) ==
    {n \in Range(stages_of(payload_stages, c.stage_type, c.granularity)) :
        /\ (IF c.st[n].schedule = None THEN payload_stages.default_freq
            ELSE Val(c.st[n].schedule)) \in BuildSchedulesOf
        /\ payload_stages.defs[n].input_set \subseteq c.available_columns}

\* C27: every call of build_stages_of_type makes at most recursion_limit
\* (99) passes; when it left the loop by the first pass that added no
\* stage, every stage of its type and granularity that is on a schedule of
\* the build and whose inputs are all available is in the phase.
C27_BuildPassesComplete ==
    (builds > 0) =>
       \A k \in DOMAIN build_info.calls :
          \A c \in {build_info.calls[k]} :
             /\ c.passes <= recursion_limit
             /\ c.by_break => EligibleStages(c) \subseteq Range(c.names)

\* a call that needed three passes: the transforms it placed in the second
\* pass depend on a column of a transform placed in the first
C27_Witness ==
    /\ builds > 0
    /\ \E k \in DOMAIN build_info.calls :
          /\ build_info.calls[k].stage_type = "transform"
          /\ build_info.calls[k].passes = 3
          /\ build_info.calls[k].by_break
          /\ {"T1", "T2"} \subseteq Range(build_info.calls[k].names)

-----------------------------------------------------------------------------
(* Claims about the trimming of the data sources *)

\* the input columns of the stages selected by the last build
RequiredInputs == UNION {x.input_items : x \in SpecStages}

\* the columns the last build needs from the data source d
Needed(d) ==
    (RequiredInputs \cup payload_stages.mandatory_columns)
       \cap build_info.data_source_projection_list[d]

InJobSpec(d) == \E x \in SpecStages : x.kind = "stage" /\ x.name = d

\* C28: for every data source that the build selected, with needed = (the
\* required inputs of all selected stages and the mandatory columns of the
\* payload) restricted to the outputs of the source: when needed is empty
\* the source is in no phase of the job spec; when needed is a proper
\* subset of its outputs the source stays and its _projection_list and
\* _output_list are exactly needed; otherwise the source stays and both
\* lists are as they were before the build.
C28_TrimmingRule ==
    (builds > 0) =>
       \A d \in RecordedSources :
          IF Needed(d) = {} THEN ~InJobSpec(d)
          ELSE IF Needed(d) # build_info.data_source_projection_list[d]
          THEN /\ InJobSpec(d)
               /\ stage_state[d].projection_list # None
               /\ Range(Val(stage_state[d].projection_list)) = Needed(d)
               /\ Len(Val(stage_state[d].projection_list))
                     = Cardinality(Needed(d))
               /\ Range(stage_state[d].output_list) = Needed(d)
               /\ Len(stage_state[d].output_list) = Cardinality(Needed(d))
          ELSE /\ InJobSpec(d)
               /\ stage_state[d].projection_list
                     = build_info.before[d].projection_list
               /\ stage_state[d].output_list
                     = build_info.before[d].output_list

\* one build that removed a data source, trimmed a second one and left a
\* third one as it was
C28_Witness ==
    /\ builds > 0
    /\ \E d \in RecordedSources : Needed(d) = {}
    /\ \E d \in RecordedSources :
          /\ Needed(d) # {}
          /\ Needed(d) # build_info.data_source_projection_list[d]
    /\ \E d \in RecordedSources :
          /\ Needed(d) = build_info.data_source_projection_list[d]
          /\ stage_state[d].projection_list = None

-----------------------------------------------------------------------------
(* Claims about the columns available to a granularity *)

\* the columns the stages of phase k deliver
PhaseColumns(k) == UNION {Produces(y) : y \in Range(job_spec[k].stages)}

\* C29: the aggregator and the transforms placed in the phase of a
\* granularity read only columns of the input level and columns that the
\* aggregators and transforms of the same granularity deliver: a stage whose
\* inputs only another granularity produces is not selected.
C29_GranularityColumns ==
    (builds > 0) =>
       \A k \in DOMAIN job_spec :
          (k > 1) =>
             \A x \in Range(job_spec[k].stages) :
                x.input_items \subseteq PhaseColumns(1) \cup PhaseColumns(k)

-----------------------------------------------------------------------------
(* Claims about the simple aggregators *)

\* the stages registered as simple aggregators that do not declare exactly
\* one input and one output
MalformedAggregators ==
    {n \in UNION {Range(payload_stages.metadata[k])
                  : k \in {x \in DOMAIN payload_stages.metadata
                             : x[1] = "simple_aggregate"}} :
        \/ Cardinality(payload_stages.defs[n].input_set) # 1
        \/ Len(build_info.before[n].output_list) # 1}

\* C30: when a stage registered as a simple aggregator declares a number
\* of inputs or of outputs other than one, build_job_spec ends with an
\* error whose message names such a stage, and no job spec is returned.
C30_MalformedAggregatorRejected ==
    (builds > 0 /\ MalformedAggregators # {}) =>
       /\ build_info.error # None
       /\ job_spec = <<>>
       /\ \E n \in MalformedAggregators :
             n \in Range(Val(build_info.error).message)

-----------------------------------------------------------------------------
(* The aggregation of one granularity: collapse_aggregation_stages builds   *)
(* the aggregate dictionary and the output list of the auto_aggregate       *)
(* stage, DataAggregator.execute computes the columns and names them.       *)

\* a simple aggregator: _input_set, _agg_function and _output_list
SimpleAggregator(name, input, func, output) ==
    [name |-> name, input |-> input, func |-> func, output |-> output]

\* a complex aggregator: its execute returns one column per output item
ComplexAggregator(name, outputs) == [name |-> name, output_list |-> outputs]

\* agg_dict[input].append(method), or agg_dict[input] = [method] for a new
\* key: the dictionary as the list of its (key, methods) in insertion order
agg_dict_add(agg_dict, input, method) ==
    IF \E k \in DOMAIN agg_dict : agg_dict[k].key = input
    THEN [k \in DOMAIN agg_dict |->
            IF agg_dict[k].key = input
            THEN [agg_dict[k] EXCEPT !.methods = Append(@, method)]
            ELSE agg_dict[k]]
    ELSE Append(agg_dict, [key |-> input, methods |-> <<method>>])

\* collapse_aggregation_stages: the loop over the simple aggregators
RECURSIVE collapse_simple(_, _)
collapse_simple(stages, acc) ==
    IF stages = <<>> THEN acc
    ELSE collapse_simple(
            Tail(stages),
            [agg_dict |-> agg_dict_add(acc.agg_dict, Head(stages).input,
                                       Head(stages).func),
             outputs |-> Append(acc.outputs, Head(stages).output)])

\* collapse_aggregation_stages and the DataAggregator made of its result
auto_aggregate(simple, complex) ==
    LET c == collapse_simple(simple, [agg_dict |-> <<>>, outputs |-> <<>>])
    IN [agg_dict |-> c.agg_dict,
        complex_aggregators |-> complex,
        output_list |->
            c.outputs \o Flatten([k \in 1..Len(complex) |->
                                     complex[k].output_list])]

\* group.agg(agg_dict): one column per key and method, the keys in the
\* order of the dictionary and the methods in the order of their list
group_agg(agg_dict) ==
    Flatten([k \in 1..Len(agg_dict) |->
               [j \in 1..Len(agg_dict[k].methods) |->
                  [of |-> agg_dict[k].key, by |-> agg_dict[k].methods[j]]]])

\* group.apply(s.execute): the columns the complex aggregator returns
group_apply(s) ==
    [j \in 1..Len(s.output_list) |-> [of |-> s.name, by |-> s.output_list[j]]]

\* DataAggregator.execute: the frames are concatenated column-wise and the
\* columns are named by position from _output_list
aggregator_execute(agg) ==
    LET gfs == (IF agg.agg_dict # <<>> THEN group_agg(agg.agg_dict) ELSE <<>>)
               \o Flatten([k \in 1..Len(agg.complex_aggregators) |->
                              group_apply(agg.complex_aggregators[k])])
    IN IF gfs = <<>> \/ Len(gfs) # Len(agg.output_list)
       THEN [raised |-> TRUE, columns |-> <<>>]
       ELSE [raised |-> FALSE,
             columns |-> [k \in 1..Len(gfs) |->
                            [name |-> agg.output_list[k], data |-> gfs[k]]]]

MaxAggregators == 3

\* the simple aggregators a payload may register, on two input columns
SimpleAggregators ==
    { SimpleAggregator("SA1", "a", "mean", "a_mean"),
      SimpleAggregator("SA2", "a", "max", "a_max"),
      SimpleAggregator("SA3", "b", "sum", "b_sum"),
      SimpleAggregator("SA4", "b", "min", "b_min") }

ComplexAggregatorLists ==
    { <<>>,
      <<ComplexAggregator("CA1", <<"q1", "q2">>)>>,
      <<ComplexAggregator("CA2", <<"z">>), ComplexAggregator("CA1", <<"q1", "q2">>)>> }

\* the lists of distinct simple aggregators, in every order of registration
SimpleAggregatorLists ==
    { q \in UNION {[1..n -> SimpleAggregators] : n \in 0..MaxAggregators} :
        \A i, j \in DOMAIN q : q[i] = q[j] => i = j }

AggInit ==
    /\ StageIdle
    /\ BatchIdle
    /\ SchedIdle
    /\ ChunkIdle
    /\ BuildIdle
    /\ ExecIdle
    /\ MergeIdle
    /\ WriterIdle
    /\ RoundIdle
    /\ \E simple \in SimpleAggregatorLists :
       \E complex \in ComplexAggregatorLists :
          agg_in = [simple |-> simple, complex |-> complex]
    /\ agg_out = <<>>

\* build_job_spec creates the auto_aggregate stage of the granularity and
\* execute_stages executes it
AggExecute ==
    /\ UNCHANGED stage_vars
    /\ UNCHANGED batch_vars
    /\ agg_in # <<>>
    /\ agg_out = <<>>
    /\ \E agg \in {auto_aggregate(agg_in.simple, agg_in.complex)} :
          agg_out' = [stage |-> agg, result |-> aggregator_execute(agg)]
    /\ UNCHANGED agg_in
    /\ UNCHANGED <<sched_vars, chunk_vars, build_vars, exec_vars, merge_vars,
                   writer_vars, round_vars>>

AggNext == AggExecute

SpecAgg == AggInit /\ [][AggNext]_vars

\* the column of the aggregator's result that has the given name
ResultColumn(name) ==
    CHOOSE c \in Range(agg_out.result.columns) : c.name = name

\* C31: after DataAggregator.execute the column named by the output item of
\* each simple aggregator holds the result of that aggregator's own
\* function applied to its own input column, also when aggregators of the
\* same input column are registered with aggregators of another column in
\* between, and the outputs of the complex aggregators follow in declared
\* order.
C31_AggregationLabels ==
    (agg_out # <<>> /\ ~agg_out.result.raised) =>
       /\ \A k \in DOMAIN agg_in.simple :
             /\ agg_out.result.columns[k].name = agg_in.simple[k].output
             /\ ResultColumn(agg_in.simple[k].output).data =
                   [of |-> agg_in.simple[k].input,
                    by |-> agg_in.simple[k].func]
       /\ \A k \in DOMAIN agg_out.result.columns :
             (k > Len(agg_in.simple)) =>
                agg_out.result.columns[k].name = agg_out.result.columns[k].data.by

-----------------------------------------------------------------------------
(* Claims about the coalescing of the columns after a merge *)

\* the last call merged a frame by an outer join or a lookup
CoalescingMerge ==
    /\ merge_call.strategy \in {"outer", "lookup"}
    /\ ~merge_call.raised

\* the merged object as merge_dataframe sees it after naming its columns
MergedObject ==
    IF merge_call.obj.kind = "series"
    THEN series_to_frame(merge_call.obj.frame, merge_call.col_names)
    ELSE rename_columns(merge_call.obj.frame, merge_call.col_names)

\* the columns present in the frame and in the merged object
SharedColumns ==
    Range(merge_call.before_df.cols) \cap Range(MergedObject.cols)

\* the value the merged object has for row r of the merged frame
ObjectValue(r, c) ==
    IF merge_call.strategy = "outer" THEN cell(MergedObject, r, c)
    ELSE cell(MergedObject,
              <<key_value(merge_call.before_df, r, MergedObject.idx[1])>>, c)

\* the names "%s%s" % (o, '_new_')
SuffixedNames == Range(NewNames) \cup {"_new__new_"}

\* C32: after an outer or lookup merge every column present both in the
\* frame and in the merged object keeps the frame's prior value wherever
\* that value is not null and has the object's value where the prior value
\* is null, and no column with the suffix '_new_' remains in the merged
\* frame.
C32_CoalesceNoSuffix ==
    CoalescingMerge =>
       /\ \A r \in merge_df.rows : \A c \in SharedColumns :
             merge_df.data[r][c] =
                (IF cell(merge_call.before_df, r, c) # Null
                 THEN cell(merge_call.before_df, r, c)
                 ELSE ObjectValue(r, c))
       /\ Range(merge_df.cols) \cap SuffixedNames = {}

\* the frame the last merge handed to coalesce_cols
JoinedFrame ==
    IF merge_call.strategy = "outer"
    THEN merge_outer(merge_call.before_df, MergedObject)
    ELSE merge_lookup(merge_call.before_df, MergedObject)

\* the columns of the joined frame that have a variant with the suffix
VariantColumns ==
    {x \in Range(JoinedFrame.cols) : with_suffix(x) \in Range(JoinedFrame.cols)}

\* C33: coalesce_cols does what its docstring states: the coalesced column
\* x contains the value of x_new_ wherever x_new_ has a value, and the
\* value of x only where x_new_ is null.
C33_CoalesceDocstring ==
    CoalescingMerge =>
       \A joined \in {JoinedFrame} : \A out \in {coalesce_cols(joined)} :
          \A r \in joined.rows : \A x \in VariantColumns :
             out.data[r][x] =
                (IF joined.data[r][with_suffix(x)] # Null
                 THEN joined.data[r][with_suffix(x)]
                 ELSE joined.data[r][x])

-----------------------------------------------------------------------------
(* Claims about the index positions of the writer *)

\* the calls of execute with a frame that has active columns, a delete
\* window and no failing driver call
PlainWrites ==
    {i \in DOMAIN writer_hist :
        /\ writer_args.df # None
        /\ Len(get_active_cols_properties(writer_args.writer,
                                          Val(writer_args.df))) > 0
        /\ writer_args.start_ts # None
        /\ writer_args.end_ts # None
        /\ writer_hist[i].db_fail = NoFailure}

\* the index positions the claim prescribes for a grain (1-based)
PrescribedPositions(df, grain) ==
    IF grain = None THEN <<1, 2>>
    ELSE (IF Val(grain).entity_id THEN <<1>> ELSE <<>>) \o
         (IF Val(grain).freq
          THEN <<IF Val(grain).entity_id THEN 2 ELSE 1>> ELSE <<>>) \o
         [k \in DOMAIN Val(grain).dimensions |->
             Pos(df.idx, Val(grain).dimensions[k])]

\* C34: for a frame with a single-part index the writer uses no index
\* positions and writes a row for every value, with the scalar index value
\* as its dimension; for a frame with a multi-part index it uses the
\* positions [0, 1] without a grain and, with a grain, 0 for the entity id,
\* the next slot for the timestamp and the positions of the grain's
\* dimensions; every row it writes has one dimension value for each
\* dimension column of the insert statement.
C34_WriterIndexPositions ==
    \A i \in PlainWrites :
       \E df \in {Val(writer_args.df)} :
       \E col_props \in {get_active_cols_properties(writer_args.writer, df)} :
          \A t \in Range(tables_of(col_props)) :
             \E grain \in {grain_of(writer_args.writer,
                                    first_item(col_props, t))} :
                IF nlevels(df) < 2
                THEN /\ index_positions(df, grain) = None
                     /\ writer_hist[i].call.outcome = "ok"
                     /\ BagCardinality(writer_hist[i].call.inserted[t]) =
                           Cardinality({y \in values_to_write(df, col_props) :
                                           col_props[y[2]].table = t})
                ELSE (writer_hist[i].call.outcome = "ok") =>
                     /\ index_positions(df, grain)
                           = Some(PrescribedPositions(df, grain))
                     /\ \A row \in BagToSet(writer_hist[i].call.inserted[t]) :
                           DOMAIN row.index = Range(insert_dimensions(grain))

-----------------------------------------------------------------------------
(* Batching of the rows written by Db2DataWriter._persist_dataframe.  The   *)
(* rows emitted for a table are numbered 1, 2, ... in the order the loop    *)
(* emits them; a buffer holds the rows lo..hi.                              *)

MAX_NUMBER_OF_ROWS_FOR_SQL == 5000

MaxRowsFirst == 10001
MaxRowsSecond == 1

\* the tables of self.row_lists, in the order of the dict
BatchTables == <<"T1", "T2">>

MaxRowsOf(t) == IF t = "T1" THEN MaxRowsFirst ELSE MaxRowsSecond

\* self.insert_statements: the prepared insert statement of each table
insert_statements == [t \in Range(BatchTables) |-> <<"INSERT INTO", t>>]

\* a list of the consecutive rows lo..hi of a table
RowList(lo, hi) == [lo |-> lo, hi |-> hi]

\* len(row_list)
row_list_len(rl) == rl.hi - rl.lo + 1

\* row_list.append(tuple(row)) for the row numbered n
row_list_append(rl, n) == IF row_list_len(rl) = 0 THEN RowList(n, n) ELSE [rl EXCEPT !.hi = n]

\* row_list.clear()
row_list_clear(rl) == RowList(rl.hi + 1, rl.hi)

\* a buffer that is only written at the end
flush_at_end_only(rl) == FALSE

\* len(row_list) >= Db2DataWriter.MAX_NUMBER_OF_ROWS_FOR_SQL
flush_due(rl) == row_list_len(rl) >= MAX_NUMBER_OF_ROWS_FOR_SQL

\* _persist_tuples(table_name, stmt_insert, row_tuples): a call of
\* ibm_db.execute_many
persist_tuples(table_name, stmt_insert, rl) ==
    [table |-> table_name, stmt |-> stmt_insert, lo |-> rl.lo, hi |-> rl.hi]

\* the state of the loops of _persist_dataframe
BatchState(rls, bs, failed) == [row_lists |-> rls, batches |-> bs, failed |-> failed]

\* the final loop of _persist_dataframe over self.row_lists; the call of the
\* driver for table fail raises
RECURSIVE persist_remaining(_, _, _)
persist_remaining(ts, fail, st) ==
    IF ts = <<>> THEN st
    ELSE IF row_list_len(st.row_lists[Head(ts)]) > 0
    THEN CHOOSE out \in
           { IF fail = Some(Head(ts))
             THEN BatchState(st.row_lists, Append(st.batches, call), TRUE)
             ELSE persist_remaining(Tail(ts), fail,
                     BatchState([st.row_lists EXCEPT ![Head(ts)] =
                                                  row_list_clear(@)],
                                Append(st.batches, call), FALSE))
             : call \in {persist_tuples(Head(ts), insert_statements[Head(ts)],
                                        st.row_lists[Head(ts)])} }
           : TRUE
    ELSE persist_remaining(Tail(ts), fail, st)

\* _delete_and_prepare has emptied the buffer of every table
BatchInit ==
    /\ SchedIdle /\ ChunkIdle /\ BuildIdle /\ ExecIdle /\ MergeIdle
    /\ WriterIdle /\ RoundIdle /\ AggIdle /\ StageIdle
    /\ row_lists = [t \in Range(BatchTables) |-> RowList(1, 0)]
    /\ emitted = [t \in Range(BatchTables) |-> 0]
    /\ batches = <<>>
    /\ batch_pc = "loop"

\* one pass of the inner loop of _persist_dataframe that emits a row for
\* table t; ok tells whether the driver accepts a batch
BatchEmit ==
    /\ batch_pc = "loop"
    /\ \E t \in Range(BatchTables), ok \in BOOLEAN :
          /\ emitted[t] < MaxRowsOf(t)
          /\ emitted' = [emitted EXCEPT ![t] = @ + 1]
          /\ \E rl \in {row_list_append(row_lists[t], emitted[t] + 1)} :
                IF flush_due(rl)
                THEN /\ batches' = Append(batches,
                            persist_tuples(t, insert_statements[t], rl))
                     /\ row_lists' = [row_lists EXCEPT ![t] =
                                         IF ok THEN row_list_clear(rl) ELSE rl]
                     /\ batch_pc' = IF ok THEN "loop" ELSE "failed"
                ELSE /\ ok
                     /\ row_lists' = [row_lists EXCEPT ![t] = rl]
                     /\ UNCHANGED <<batches, batch_pc>>
    /\ UNCHANGED <<sched_vars, chunk_vars, build_vars, exec_vars, merge_vars,
                   writer_vars, round_vars, agg_vars, stage_vars>>

\* the frame has no further value: the final bulk of each table
BatchFinish ==
    /\ batch_pc = "loop"
    /\ \E fail \in {None} \cup {Some(t) : t \in Range(BatchTables)} :
       \E st \in {persist_remaining(BatchTables, fail,
                                    BatchState(row_lists, batches, FALSE))} :
          /\ (fail # None) => st.failed
          /\ row_lists' = st.row_lists
          /\ batches' = st.batches
          /\ batch_pc' = IF st.failed THEN "failed" ELSE "done"
    /\ UNCHANGED emitted
    /\ UNCHANGED <<sched_vars, chunk_vars, build_vars, exec_vars, merge_vars,
                   writer_vars, round_vars, agg_vars, stage_vars>>

BatchNext == BatchEmit \/ BatchFinish

SpecBatch == BatchInit /\ [][BatchNext]_vars

\* the batches of table t, in the order of the calls
BatchesOf(t) == SelectSeq(batches, LAMBDA b : b.table = t)

\* the rows of table t handed to the driver so far are the rows
\* 1..passed, each once, and the buffer holds exactly the others
PassedOnce(t) ==
    \E bs \in {BatchesOf(t)} :
       /\ \A k \in DOMAIN bs : bs[k].lo = (IF k = 1 THEN 1 ELSE bs[k - 1].hi + 1)
       /\ \A k \in DOMAIN bs : bs[k].hi >= bs[k].lo
       /\ row_lists[t].lo = (IF bs = <<>> THEN 1 ELSE bs[Len(bs)].hi + 1)
       /\ row_lists[t].hi = emitted[t]

\* C35: while execute has not failed, no buffer holds 5000 rows once a pass
\* of the loop has ended, every batch handed to the driver has between 1 and
\* 5000 rows and the insert statement of its own table, every emitted row
\* is in exactly one batch or still in the buffer of its table, and after a
\* successful execute every buffer is empty, so that every emitted row was
\* handed to the driver exactly once.
C35_WriterBatching ==
    (batch_pc \in {"loop", "done"}) =>
       /\ \A t \in Range(BatchTables) :
             /\ row_list_len(row_lists[t]) < MAX_NUMBER_OF_ROWS_FOR_SQL
             /\ PassedOnce(t)
             /\ (batch_pc = "done") => row_list_len(row_lists[t]) = 0
       /\ \A k \in DOMAIN batches :
             /\ batches[k].hi - batches[k].lo + 1 \in 1..MAX_NUMBER_OF_ROWS_FOR_SQL
             /\ batches[k].stmt = insert_statements[batches[k].table]

\* a successful execute that wrote two full batches and a final batch of one
\* row for the first table, and a final batch for the second
C35_Witness ==
    /\ batch_pc = "done"
    /\ emitted["T1"] = 2 * MAX_NUMBER_OF_ROWS_FOR_SQL + 1
    /\ emitted["T2"] = 1
    /\ Len(batches) = 4
    /\ batches[3].table = "T1" /\ batches[3].lo = batches[3].hi
    /\ batches[4].table = "T2"

-----------------------------------------------------------------------------
(* The calls of stage.execute made by JobController.execute_stage.  A stage *)
(* has the parameters its execute method accepts and what the body of the   *)
(* method does each time it is entered.                                     *)

\* what the body of an execute method does: it returns a frame with data, an
\* empty frame, True or False, or raises
BodyOutcomes == {"data", "empty", "true", "false", "TypeError", "ValueError"}

Raises(outcome) == outcome \in {"TypeError", "ValueError"}

\* accepts is "df" for execute(self, df) and "df_start_end" for
\* execute(self, df=None, start_ts=None, end_ts=None)
StageUnderCall(accepts, body) == [accepts |-> accepts, body |-> body]

\* stage.execute(**kwargs) as the n-th entry candidate: Python raises
\* TypeError without entering the body when a keyword is not a parameter
stage_execute(stage, kwargs, entered) ==
    IF kwargs = "df_start_end" /\ stage.accepts = "df"
    THEN [kwargs |-> kwargs, entered |-> FALSE, outcome |-> "TypeError"]
    ELSE [kwargs |-> kwargs, entered |-> TRUE,
          outcome |-> stage.body[entered + 1]]

\* the number of times the body was entered by the calls
EnteredCount(calls) == Cardinality({k \in DOMAIN calls : calls[k].entered})

\* the except clause of execute_stage
caught_by_except_TypeError(call) == call.outcome = "TypeError"

\* execute_stage: the calls, the result returned and the error raised
execute_stage_calls(stage) ==
    CHOOSE out \in
      { IF Raises(first.outcome) /\ ~caught_by_except_TypeError(first)
        THEN [calls |-> <<first>>, result |-> None,
              raised |-> Some(first.outcome)]
        ELSE IF ~Raises(first.outcome)
        THEN [calls |-> <<first>>,
              result |-> Some(execute_stage(first.outcome)), raised |-> None]
        ELSE CHOOSE res \in
               { [calls |-> <<first, second>>,
                  result |-> IF Raises(second.outcome) THEN None
                             ELSE Some(execute_stage(second.outcome)),
                  raised |-> IF Raises(second.outcome)
                             THEN Some(second.outcome) ELSE None]
                 : second \in {stage_execute(stage, "df",
                                             EnteredCount(<<first>>))} }
               : TRUE
        : first \in {stage_execute(stage, "df_start_end", 0)} }
      : TRUE

StagesUnderCall ==
    {StageUnderCall(a, <<b1, b2>>) :
        a \in {"df", "df_start_end"}, b1 \in BodyOutcomes, b2 \in BodyOutcomes}

StageInit ==
    /\ SchedIdle /\ ChunkIdle /\ BuildIdle /\ ExecIdle /\ MergeIdle
    /\ WriterIdle /\ RoundIdle /\ AggIdle /\ BatchIdle
    /\ stage_in \in StagesUnderCall
    /\ stage_out = <<>>

StageExecute ==
    /\ stage_out = <<>>
    /\ stage_out' = <<execute_stage_calls(stage_in)>>
    /\ UNCHANGED stage_in
    /\ UNCHANGED <<sched_vars, chunk_vars, build_vars, exec_vars, merge_vars,
                   writer_vars, round_vars, agg_vars, batch_vars>>

StageNext == StageExecute

SpecStage == StageInit /\ [][StageNext]_vars

\* C36: execute_stage calls stage.execute(df=df) only when the call with
\* df, start_ts and end_ts failed because the method does not accept these
\* arguments, and the body of a method that accepts them is entered exactly
\* once, also when it raises an error.
C36_StageCalledOnce ==
    \A i \in DOMAIN stage_out :
       /\ (\E k \in DOMAIN stage_out[i].calls :
              stage_out[i].calls[k].kwargs = "df")
          => stage_in.accepts = "df"
       /\ (stage_in.accepts = "df_start_end")
          => EnteredCount(stage_out[i].calls) = 1

-----------------------------------------------------------------------------
(* Claims about the rows Db2DataWriter.execute leaves alone *)

\* the data items execute writes: the active columns of the frame
ActiveItems ==
    IF writer_args.df = None THEN {}
    ELSE {p.item : p \in Range(get_active_cols_properties(writer_args.writer,
                                                          Val(writer_args.df)))}

\* the rows of a table that belong to other data items than those of names
RowsOfOthers(table, names) ==
    [r \in {x \in DOMAIN table : x.key \notin names} |-> table[r]]

\* C37: execute changes only rows of the data items it writes: in every
\* table the rows whose KEY is not an active column are the same before and
\* after the call, and so are all the rows of other data items in tables no
\* active column refers to.
C37_WriterFrame ==
    \A i \in DOMAIN writer_hist :
       \A t \in DOMAIN writer_hist[i].before :
          RowsOfOthers(writer_hist[i].call.tables[t], ActiveItems)
             = RowsOfOthers(writer_hist[i].before[t], ActiveItems)

-----------------------------------------------------------------------------
(* Termination of get_chunks *)

\* get_chunks takes its next step as long as it has one: the loop goes on
\* while its condition holds
SpecChunksLive == SpecChunks /\ WF_vars(ChunkNext)

\* a list that get_chunks returns has fewer than MaxChunks entries
ReturnedListWhole == (chunk_pc = "done") => (Len(chunks) < MaxChunks)

\* The loop tests chunk_end < end_date, finds it true, and has tested it
\* with the same chunk_end before (the end of every chunk in the list was
\* the chunk_end of one test).  A pass of the loop computes the next
\* chunk_start and chunk_end from chunk_end and the arguments alone, so
\* from here the same passes follow one another for ever and the list
\* grows without end: get_chunks does not return.
LoopRepeats ==
    /\ chunk_pc = "loop"
    /\ TLt(chunks[Len(chunks)].end, chunk_in.end_date)
    /\ \E k \in 1..(Len(chunks) - 1) : chunks[k].end = chunks[Len(chunks)].end

\* the only loops that are not followed to their end are loops that repeat
CapOnlyCutsRepeatingLoops ==
    (/\ chunk_pc = "loop"
     /\ TLt(chunks[Len(chunks)].end, chunk_in.end_date)
     /\ Len(chunks) >= MaxChunks) => LoopRepeats

\* get_chunks has returned chunks that end at or before end_date, the last
\* of them at end_date
ChunksReturned ==
    /\ chunk_pc = "done"
    /\ \A k \in DOMAIN chunks : TLe(chunks[k].end, chunk_in.end_date)
    /\ chunks[Len(chunks)].end = chunk_in.end_date

\* C38: get_chunks terminates for every start date, end date and chunk
\* size, also when get_adjusted_start_date moves a start back to an earlier
\* period boundary; every chunk it returns ends at or before end_date and
\* the last one ends at end_date.
\* A call that returns never tests its loop twice with the same chunk_end
\* (first conjunct); the second conjunct is the return itself, for the
\* runs the first conjunct allows.
C38_ChunksTerminate ==
    /\ []~LoopRepeats
    /\ <>(ChunksReturned \/ LoopRepeats)

-----------------------------------------------------------------------------
(* Termination of JobController.execute *)

\* the passes of the while loop and the steps inside a pass, those of
\* get_chunks included, are taken as long as there is one to take
SpecExecLive == SpecExec /\ WF_vars(ExecNext)

\* keep_alive_duration is None: execute_until = execute_date
KeepAliveUnset == execute_until = StartTime

\* control has left execute, by the end of the loop or by an exception
ExecuteEnded == exec_pc \in {"done", "raised"}

\* a pass starts only with execute_date <= execute_until and with a later
\* execute_date than the pass before; without a keep_alive_duration no
\* second pass starts, and an execute that has ended has made one pass
PassesWithinKeepAlive ==
    /\ [](exec_pc = "tick" => TLe(execute_date, execute_until))
    /\ [](KeepAliveUnset => ticks <= 1)
    /\ []((ExecuteEnded /\ KeepAliveUnset) => ticks = 1)
    /\ [][(exec_pc # "tick" /\ exec_pc' = "tick")
             => TLt(execute_date, execute_date')]_vars

\* the payload's get_adjusted_start_date moves a date back by more than
\* its chunk_size can make up for
CalendarOutrunsChunks ==
    /\ payload_stages.adjust.kind = "period"
    /\ TLt(payload_stages.chunk_size, payload_stages.adjust.period)

\* execute ends when run with a payload whose chunks advance
ExecuteEndsWithAdvancingChunks == (~CalendarOutrunsChunks) => <>ExecuteEnded

\* C39: execute terminates; without a keep_alive_duration it makes exactly
\* one pass, and with one it starts no pass whose execute_date is later
\* than execute_until.
\* An execute that terminates makes no call of get_chunks that does not
\* return (second conjunct); the third conjunct is the end of execute, for
\* the runs the second conjunct allows.
C39_ExecuteTerminates ==
    /\ PassesWithinKeepAlive
    /\ []~LoopRepeats
    /\ <>(ExecuteEnded \/ LoopRepeats)

-----------------------------------------------------------------------------
(* Claims about the distance of the executions of a schedule *)

\* the times the job log holds a completion of the schedule of frequency freq
CompletionTimes(freq) ==
    {e.last_update : e \in {x \in job_log : /\ x.object_type = PayloadClass
                                            /\ x.object_name = JobName
                                            /\ x.schedule = freq}}

\* C40: a schedule that the job log holds as completed at t1 is not due at an
\* execution date before t1 + freq, and two completions of the same schedule
\* in the job log are at least freq apart.
C40_NoRunTwiceInPeriod ==
    \A i \in DOMAIN schedules :
       /\ (sched_pc = "evaluated" /\ schedule_metadata[i].is_due)
          => \A t1 \in CompletionTimes(schedules[i].freq) :
                TLe(TAdd(t1, to_timedelta(schedules[i].freq)), execute_date)
       /\ \A t1, t2 \in CompletionTimes(schedules[i].freq) :
             TLt(t1, t2)
                => TLe(TAdd(t1, to_timedelta(schedules[i].freq)), t2)

====
